---- MODULE Spec2Model ----
(***************************************************************************)
(* The trip-planning assistant of seoung-mun/castone_3: the routing graph  *)
(* of src/src/graph_flow.py (entry_router, agent nodes, agent_router,      *)
(* call_tools_node, route_after_tools), the itinerary mutator              *)
(* (execute_tools, process_deletions, process_additions, update_timeline,  *)
(* reorganize_itinerary_planning) and the session wrapper run_ai_agent of  *)
(* src/pages/trip_planner.py.                                              *)
(*                                                                         *)
(* Place names are sequences of one-character strings, so that             *)
(* normalize_name and difflib's ratio are computed, not assumed.           *)
(***************************************************************************)
EXTENDS Integers, Sequences, FiniteSets, TLC

\* ------------------------------------------------------------------ bounds
\* Spec: trips last 1..MaxDays days (total_days is fixed when the session starts).
MaxDays == 1
\* Spec: a tool pass that would leave more than MaxStops stops is not explored.
MaxStops == 4
\* Spec: a search answers with one of the FinderChoices best-ranked places left.
FinderChoices == 1
\* PlanSpec: the same three bounds.
PlanDays == 3
PlanStops == 10
PlanChoices == 2
\* EditSpec: the same three bounds.
EditDays == 1
EditStops == 3
EditChoices == 1
\* SchedSpec: the days of the trip, the stops of the day the scheduler is
\* given, the schedulers made for it and the runs of plan_day on it.
SchedDays == 2
SchedStops == 2
SchedMade == 2
SchedRuns == 2

\* TestSpec: a tool pass that would leave more than TestStops stops is not
\* explored, and a search answers with one of the TestChoices best-ranked places.
TestStops == 26
TestChoices == 1

\* TspSpec: _solve_tsp is given 2..TspPlaces places.
TspPlaces == 10

\* FailSpec: a tool pass that would leave more than FailStops stops is not
\* explored.
FailStops == 3

\* "recursion_limit": 50, the number of graph steps one turn may take.
RecursionLimit == 50

\* ------------------------------------------------------- names and catalog
NameAB == <<"a", "b">>
NameCD == <<"c", "d">>
NameABC == <<"a", "b", "c">>
NameG == <<"g">>
\* The name _normalize_itinerary_for_pdf gives an entry that has none.
DefaultName == <<"n", "o">>
\* The sentinel find_and_select_best_place returns when nothing is found.
NotFoundName == <<"x">>
\* The name of the record find_and_select_best_place returns when the
\* filtering of the candidates raises.
ErrorName == <<"e", "r">>
\* An empty string (the session's initial current_anchor).
EmptyStr == <<>>
\* st.session_state.destination: the trip's destination, set before the chat.
Destination == <<"d", "e">>

\* The place database, best-ranked first: each place's name and category tag.
Catalog ==
    << [name |-> NameAB, type |-> "restaurant"],
       [name |-> NameCD, type |-> "coffee"],
       [name |-> NameABC, type |-> "bbq"],
       [name |-> NameG, type |-> "museum"] >>

\* PlanSpec's place database: restaurants, cafes and attractions in turn.
PlanCatalog ==
    << [name |-> <<"r", "1">>, type |-> "restaurant"],
       [name |-> <<"c", "1">>, type |-> "cafe"],
       [name |-> <<"t", "1">>, type |-> "park"],
       [name |-> <<"r", "2">>, type |-> "bbq"],
       [name |-> <<"c", "2">>, type |-> "coffee"],
       [name |-> <<"t", "2">>, type |-> "museum"],
       [name |-> <<"r", "3">>, type |-> "restaurant"],
       [name |-> <<"c", "3">>, type |-> "cafe"],
       [name |-> <<"t", "3">>, type |-> "park"],
       [name |-> <<"r", "4">>, type |-> "restaurant"],
       [name |-> <<"c", "4">>, type |-> "cafe"],
       [name |-> <<"t", "4">>, type |-> "park"] >>

CatalogNames == { Catalog[i].name : i \in 1..Len(Catalog) }

\* What the language model may name as the target of delete_place or
\* replace_place: an exact name, a name typed with a space, a fragment,
\* and a string that matches nothing.
Targets == { NameAB, <<"c", " ", "d">>, <<"z">> }

\* mock_total_days and mock_itinerary, the data the developer's test button
\* loads: the stops of four days (p: day 1, q: day 2, s: day 3, u: day 4),
\* with a TransitLeg that has no name between the stops of a day.
mock_total_days == 4

mock_itinerary ==
    LET MockStop(n, d, ty) == [name |-> n, day |-> d, type |-> ty]
        MockMove(d) == [name |-> <<>>, day |-> d, type |-> "move"]
    IN
    << MockStop(<<"p", "1">>, 1, "restaurant"), MockMove(1),
       MockStop(<<"p", "2">>, 1, "cafe"), MockMove(1),
       MockStop(<<"p", "3">>, 1, "attraction"), MockMove(1),
       MockStop(<<"p", "4">>, 1, "restaurant"),
       MockStop(<<"q", "1">>, 2, "attraction"), MockMove(2),
       MockStop(<<"q", "2">>, 2, "restaurant"), MockMove(2),
       MockStop(<<"q", "3">>, 2, "cafe"), MockMove(2),
       MockStop(<<"q", "4">>, 2, "attraction"), MockMove(2),
       MockStop(<<"q", "5">>, 2, "restaurant"),
       MockStop(<<"s", "1">>, 3, "cafe"), MockMove(3),
       MockStop(<<"s", "2">>, 3, "restaurant"), MockMove(3),
       MockStop(<<"s", "3">>, 3, "cafe"), MockMove(3),
       MockStop(<<"s", "4">>, 3, "attraction"), MockMove(3),
       MockStop(<<"s", "5">>, 3, "restaurant"),
       MockStop(<<"u", "1">>, 4, "attraction") >>

MockNames == { mock_itinerary[i].name : i \in 1..Len(mock_itinerary) } \ {<<>>}

\* In TestSpec the language model may also name the second stop of the test
\* data's day 2.
MockTarget == <<"q", "2">>
AllTargets == Targets \cup {MockTarget}

\* ------------------------------------------------------- pure helpers
RECURSIVE StripBrackets(_)
\* re.sub(r'\(.*?\)|\[.*?\]', '', s): every "(" up to the next ")" goes.
StripBrackets(s) ==
    IF s = <<>> THEN <<>>
    ELSE IF Head(s) = "(" /\ \E j \in 2..Len(s) : s[j] = ")"
         THEN LET j == CHOOSE j \in 2..Len(s) :
                           s[j] = ")" /\ \A k \in 2..(j - 1) : s[k] # ")"
              IN  StripBrackets(SubSeq(s, j + 1, Len(s)))
         ELSE <<Head(s)>> \o StripBrackets(Tail(s))

\* The characters [a-zA-Z0-9] of the model's alphabet.
AlnumChars ==
    {"a", "b", "c", "d", "e", "f", "g", "n", "o", "p", "q", "r", "s", "t", "u", "x", "z",
     "1", "2", "3", "4", "5"}

normalize_name(raw_name) ==
    SelectSeq(StripBrackets(raw_name), LAMBDA c : c \in AlnumChars)

RECURSIVE MatchCount(_, _, _, _, _, _)
\* The number of matched characters difflib.SequenceMatcher finds between
\* a[alo..ahi] and b[blo..bhi]: the longest common block (the earliest in a,
\* then the earliest in b), then the same to its left and to its right.
MatchCount(a, alo, ahi, b, blo, bhi) ==
    LET cands == { c \in (alo..ahi) \X (blo..bhi) \X (1..(ahi - alo + 1)) :
                      /\ c[1] + c[3] - 1 <= ahi
                      /\ c[2] + c[3] - 1 <= bhi
                      /\ \A d \in 0..(c[3] - 1) : a[c[1] + d] = b[c[2] + d] }
    IN  IF cands = {} THEN 0
        ELSE LET best == CHOOSE c \in cands : \A e \in cands :
                            \/ c[3] > e[3]
                            \/ c[3] = e[3] /\ c[1] < e[1]
                            \/ c[3] = e[3] /\ c[1] = e[1] /\ c[2] <= e[2]
             IN  best[3]
                 + MatchCount(a, alo, best[1] - 1, b, blo, best[2] - 1)
                 + MatchCount(a, best[1] + best[3], ahi, b, best[2] + best[3], bhi)

\* difflib.SequenceMatcher(None, a, b).ratio() as the fraction <<num, den>>.
SeqRatio(a, b) ==
    IF Len(a) + Len(b) = 0 THEN <<1, 1>>
    ELSE <<2 * MatchCount(a, 1, Len(a), b, 1, Len(b)), Len(a) + Len(b)>>

\* Comparison of two fractions with positive denominators.
RatGT(r, q) == r[1] * q[2] > q[1] * r[2]
RatMax(r, q) == IF RatGT(q, r) THEN q ELSE r

\* a in b for Python strings: a is a contiguous part of b.
IsSubstring(a, b) ==
    \E i \in 0..(Len(b) - Len(a)) : \A k \in 1..Len(a) : b[i + k] = a[k]

\* ------------------------------------------------------- itinerary entries
\* An itinerary entry is [name, day, type]; a TransitLeg is an entry whose
\* type is "move".
\* The list comprehension of places_only without its test: every entry stays.
all_entries(itinerary_) == itinerary_

places_only(itinerary_) == SelectSeq(itinerary_, LAMBDA x : x.type # "move")

NamesOf(itinerary_) == { itinerary_[i].name : i \in 1..Len(itinerary_) }

CountDay(itinerary_, d) ==
    Cardinality({ i \in 1..Len(itinerary_) : itinerary_[i].day = d })

\* Category tags holding one of the restaurant keywords / cafe keywords.
RestaurantTags == {"restaurant", "bbq"}
CafeTags == {"cafe", "coffee"}

get_category_group(type_str) ==
    IF type_str \in RestaurantTags THEN "restaurant"
    ELSE IF type_str \in CafeTags THEN "cafe"
    ELSE "attraction"

\* The cap on the stops of day last_day (the same rule stands in execute_tools
\* and in process_additions).
Day1Cap == 4
FinalDayCap == 1
OtherDayCap == 5
\* max_places with the branch of the final day left out.
max_places_no_final(last_day, total_days_) ==
    IF last_day = 1 THEN Day1Cap ELSE OtherDayCap

max_places(last_day, total_days_) ==
    IF last_day = 1 THEN Day1Cap
    ELSE IF last_day = total_days_ THEN FinalDayCap
    ELSE OtherDayCap

\* last_deleted_spot / empty_slot_info: None, or {index, day} (index from 0).
NoSlot == [index |-> -1, day |-> 0]
\* History: no slot was filled.
NoFill == [index |-> -1, day |-> 0, name |-> <<>>]

\* list.append(x) where list.insert(idx, x) stands: the index is ignored.
InsertAtEnd(s, idx, x) == Append(s, x)

\* list.insert(idx, x) for 0 <= idx <= len(list).
InsertAt(s, idx, x) == SubSeq(s, 1, idx) \o <<x>> \o SubSeq(s, idx + 1, Len(s))
\* list.pop(idx) for 0 <= idx < len(list).
RemoveAt(s, idx) == SubSeq(s, 1, idx) \o SubSeq(s, idx + 2, Len(s))

\* ------------------------------------------------------- tool calls, results
FIND == "find_and_select_best_place"
TIMELINE == "plan_itinerary_timeline"
OPTIMIZE == "optimize_and_get_routes"
DELETE == "delete_place"
REPLACE == "replace_place"
CONFIRM == "confirm_and_download_pdf"

Call(n, t) == [name |-> n, tgt |-> t]

\* The third component of a tool result (raw_json_output):
\*   skip     "SKIP_FOR_LATER"
\*   none     None (the tool raised)
\*   text     a string that is not JSON (an alert, a plain message)
\*   timeline the timeline tool's JSON list
\*   intent   {"action": ..., "place_name" | "old": tgt}
\*   place    {"name": ..., "type": ...}
Raw(k, t, n, ty) == [k |-> k, tgt |-> t, name |-> n, type |-> ty]
RawSkip == Raw("skip", <<>>, <<>>, "")
RawNone == Raw("none", <<>>, <<>>, "")
RawText == Raw("text", <<>>, <<>>, "")
RawTimeline == Raw("timeline", <<>>, <<>>, "")

\* A message, kept as far as the graph reads it. kind: human / ai / tool.
\* Of an ai message: whether it has tool calls, and which of target_tools it
\* calls. content: of a human message whether it holds an edit keyword (edit /
\* plain), of a tool message whether it is the alert of a blocked search
\* (blocked), the full-stop warning (full) or anything else (result).
Msg(k, has_calls, ts, c) == [kind |-> k, tool_calls |-> has_calls, tools |-> ts, content |-> c]
ToolMsg(c) == Msg("tool", FALSE, {}, c)
HumanMsg(c) == Msg("human", FALSE, {}, c)

\* What find_and_select_best_place may answer when exclude_places is given:
\* one of the choices best-ranked catalog places outside it, the not-found
\* sentinel, or an exception.
SearchOutcomes(catalog, choices, exclude_places) ==
    LET left == SelectSeq(catalog, LAMBDA q : q.name \notin exclude_places)
        best == { i \in 1..Len(left) : i <= choices }
    IN  { Raw("place", <<>>, left[i].name, left[i].type) : i \in best }
        \cup { Raw("place", <<>>, NotFoundName, "none"), RawNone }

\* The answers where _filter_candidates may raise (filter_fails): also the
\* error record, whatever exclude_places holds.
SearchAnswers(catalog, choices, exclude_places, filter_fails) ==
    SearchOutcomes(catalog, choices, exclude_places)
    \cup (IF filter_fails THEN {Raw("place", <<>>, ErrorName, "error")} ELSE {})

ToolSet(names) == { names[i] : i \in 1..Len(names) }
target_tools == {TIMELINE, OPTIMIZE}

\* The ai message that carries the tool calls calls.
AIMsg(calls) ==
    Msg("ai", calls # <<>>, { calls[i].name : i \in 1..Len(calls) } \cap target_tools, "")

\* ------------------------------------------------------- execute_tools
is_schedule_full(stage, itinerary_, total_days_) ==
    LET places == places_only(itinerary_)
        last_day == places[Len(places)].day
    IN  /\ stage = "planning"
        /\ places # <<>>
        /\ last_day >= total_days_
        /\ CountDay(places, last_day) >= max_places(last_day, total_days_)

final_exclude_list(itinerary_, ban_list_) == NamesOf(itinerary_) \cup ban_list_

\* [Step 1] The score the pre-scan gives an itinerary entry for a normalized
\* target: the ratio, or 1.0 where the target is contained in the name.
PrescanRatio(tgt_norm, p_norm) ==
    IF IsSubstring(tgt_norm, p_norm) THEN <<1, 1>> ELSE SeqRatio(tgt_norm, p_norm)

\* The loop "if score > highest_score": the first index (from 0) holding the
\* highest score above 0.0, or -1.
BestIndex(scores) ==
    IF \A i \in 1..Len(scores) : ~RatGT(scores[i], <<0, 1>>) THEN -1
    ELSE (CHOOSE i \in 1..Len(scores) :
              /\ \A j \in 1..Len(scores) : ~RatGT(scores[j], scores[i])
              /\ \A j \in 1..(i - 1) : RatGT(scores[i], scores[j])) - 1

\* Every string a stop's name can be, and every string a target can be.
StopNames == CatalogNames \cup MockNames \cup {DefaultName, EmptyStr, ErrorName}

\* PrescanRatio of the normalized target and name, tabulated.
PrescanScore ==
    [ t \in AllTargets, n \in StopNames |-> PrescanRatio(normalize_name(t), normalize_name(n)) ]

\* The index (from 0) of the itinerary entry the pre-scan selects for a
\* target, or -1: "if best_match_idx != -1 and highest_score > 0.5".
PrescanMatch(tgt, itinerary_) ==
    LET scores == [ i \in 1..Len(itinerary_) |-> PrescanScore[tgt, itinerary_[i].name] ]
        best_match_idx == BestIndex(scores)
    IN  IF best_match_idx # -1 /\ RatGT(scores[best_match_idx + 1], <<1, 2>>)
        THEN best_match_idx ELSE -1

\* state.get('current_anchor') or state.get('destination').
anchor_or_destination(anchor) == IF anchor # <<>> THEN anchor ELSE Destination

\* The positions of the delete/replace calls in whose arguments the pre-scan
\* finds a target, "args.get('place_name') or args.get('old')": place_name is
\* the argument of delete_place; the arguments of replace_place are
\* old_place_name, query and destination, so a replace call yields None.
TargetedCalls(calls) ==
    { i \in 1..Len(calls) :
        /\ calls[i].name \in {DELETE, REPLACE}
        /\ (IF calls[i].name = DELETE THEN calls[i].tgt ELSE <<>>) # <<>> }

\* The pre-scan's loop over the tool calls: it goes on to the next call while
\* the target of the call at i selects no entry, and ends ("break") at the
\* first that does. None is the empty string.
RECURSIVE PrescanFrom(_, _, _, _)
PrescanFrom(calls, i, itinerary_, anchor) ==
    IF i > Len(calls) THEN EmptyStr
    ELSE IF i \notin TargetedCalls(calls) THEN PrescanFrom(calls, i + 1, itinerary_, anchor)
    ELSE LET idx == PrescanMatch(calls[i].tgt, itinerary_)
         IN  IF idx = -1 THEN PrescanFrom(calls, i + 1, itinerary_, anchor)
             ELSE IF idx > 0 THEN itinerary_[idx].name
             ELSE anchor_or_destination(anchor)

dynamic_anchor(calls, itinerary_, anchor) == PrescanFrom(calls, 1, itinerary_, anchor)

\* args['anchor'] of the pass's searches.
search_anchor(calls, itinerary_, anchor) ==
    LET dyn == dynamic_anchor(calls, itinerary_, anchor)
    IN  IF dyn # <<>> THEN dyn ELSE anchor_or_destination(anchor)

\* The result triple of one tool call; out is the search tool's answer.
ExecuteOne(call, out, full) ==
    IF call.name = CONFIRM THEN [msg |-> FALSE, content |-> "result", tool |-> CONFIRM, raw |-> RawSkip]
    ELSE IF call.name = FIND /\ full
         THEN [msg |-> TRUE, content |-> "blocked", tool |-> FIND, raw |-> RawText]
    ELSE IF call.name = FIND
         THEN [msg |-> TRUE, content |-> "result", tool |-> FIND, raw |-> out]
    ELSE IF call.name = TIMELINE
         THEN [msg |-> TRUE, content |-> "result", tool |-> TIMELINE, raw |-> RawTimeline]
    ELSE IF call.name \in {DELETE, REPLACE}
         THEN [msg |-> TRUE, content |-> "result", tool |-> call.name,
               raw |-> Raw("intent", call.tgt, <<>>, "")]
    ELSE [msg |-> TRUE, content |-> "result", tool |-> call.name, raw |-> RawText]

\* A result triple with the id of its tool call (the call's position) and,
\* of a search that ran, the anchor it was given (else the empty string).
Result(r, i, anchor) ==
    [msg |-> r.msg, content |-> r.content, tool |-> r.tool, raw |-> r.raw, id |-> i,
     anchor |-> IF r.tool = FIND /\ r.content # "blocked" THEN anchor ELSE EmptyStr]

execute_tools(calls, outs, stage, itinerary_, anchor, total_days_) ==
    [ i \in 1..Len(calls) |->
        Result(ExecuteOne(calls[i], outs[i], is_schedule_full(stage, itinerary_, total_days_)),
               i, search_anchor(calls, itinerary_, anchor)) ]

\* The element of a one-element set: names a value that is computed once.
The(S) == CHOOSE x \in S : TRUE

\* ------------------------------------------------------- process_deletions
\* The score process_deletions gives a stop for a normalized target.
DeletionRatio(tgt_norm, place_norm) ==
    LET ratio == SeqRatio(tgt_norm, place_norm)
        is_included == IsSubstring(tgt_norm, place_norm) /\ Len(tgt_norm) > 1
    IN  IF is_included THEN RatMax(ratio, <<9, 10>>) ELSE ratio

\* DeletionRatio of the normalized target and name, tabulated.
DeletionScore ==
    [ t \in AllTargets, n \in StopNames |-> DeletionRatio(normalize_name(t), normalize_name(n)) ]

\* DeletionMatch without the test "highest_ratio > 0.5".
DeletionMatch_any(tgt, places) ==
    LET scores == [ i \in 1..Len(places) |-> DeletionScore[tgt, places[i].name] ]
    IN  IF tgt # <<>> THEN BestIndex(scores) ELSE -1

\* The index (from 0) of the stop a delete/replace target removes, or -1.
DeletionMatch(tgt, places) ==
    LET scores == [ i \in 1..Len(places) |-> DeletionScore[tgt, places[i].name] ]
        best_match_idx == BestIndex(scores)
    IN  IF tgt # <<>> /\ best_match_idx # -1 /\ RatGT(scores[best_match_idx + 1], <<1, 2>>)
        THEN best_match_idx ELSE -1

\* Popped that leaves empty_slot_info as it was.
Popped_unrecorded(acc, idx, id) ==
    IF idx = -1 THEN [acc EXCEPT !.unmatched = @ \cup {id}]
    ELSE [acc EXCEPT !.removed = @ \cup {acc.places_only[idx + 1].name},
                     !.applied = Append(@, [id |-> id, kind |-> "delete", index |-> idx]),
                     !.places_only = RemoveAt(@, idx),
                     !.modification_happened = TRUE]

\* "if best_match_idx != -1 and highest_ratio > 0.5": pop the stop at idx
\* (from 0) and remember its slot, where idx is not -1.
Popped(acc, idx, id) ==
    IF idx = -1 THEN [acc EXCEPT !.unmatched = @ \cup {id}]
    ELSE [acc EXCEPT !.empty_slot_info = [index |-> idx, day |-> acc.places_only[idx + 1].day],
                     !.removed = @ \cup {acc.places_only[idx + 1].name},
                     !.applied = Append(@, [id |-> id, kind |-> "delete", index |-> idx]),
                     !.places_only = RemoveAt(@, idx),
                     !.modification_happened = TRUE]

\* One iteration of the loop over tool_results; acc holds the function's locals.
DeletionStep(acc, r) ==
    IF r.raw.k = "skip" THEN acc
    ELSE LET a1 == IF r.msg THEN [acc EXCEPT !.tool_outputs = Append(@, ToolMsg(r.content))]
                   ELSE acc
         IN  IF r.raw.k = "none" THEN a1
             ELSE LET a2 == IF r.tool = TIMELINE THEN [a1 EXCEPT !.explicit_reschedule = TRUE]
                            ELSE a1
                  IN  IF r.tool \in {DELETE, REPLACE} /\ r.raw.k = "intent"
                      THEN The({ Popped(a2, idx, r.id) : idx \in {DeletionMatch(r.raw.tgt, a2.places_only)} })
                      ELSE a2

RECURSIVE DeletionLoop_abort(_, _, _)
\* The loop with one try around it: a result that is no JSON ends the loop.
DeletionLoop_abort(acc, results, i) ==
    IF i > Len(results) \/ results[i].raw.k = "text" THEN acc
    ELSE The({ DeletionLoop_abort(a, results, i + 1) : a \in {DeletionStep(acc, results[i])} })

RECURSIVE DeletionLoop(_, _, _)
\* "for tool_message, tool_name, raw_json_output in tool_results", with the
\* try inside the loop.
DeletionLoop(acc, results, i) ==
    IF i > Len(results) THEN acc
    ELSE The({ DeletionLoop(a, results, i + 1) : a \in {DeletionStep(acc, results[i])} })

\* The five values process_deletions returns, and the history of the pass: the
\* names it popped, for each pop the id of the tool call and the index, and
\* the ids of the calls whose intent removed nothing.
process_deletions(tool_results, itinerary_) ==
    DeletionLoop([places_only |-> places_only(itinerary_),
                  empty_slot_info |-> NoSlot,
                  modification_happened |-> FALSE,
                  explicit_reschedule |-> FALSE,
                  tool_outputs |-> <<>>,
                  removed |-> {},
                  applied |-> <<>>,
                  unmatched |-> {}],
                 tool_results, 1)

\* ------------------------------------------------------- process_additions
\* The place record a search result holds, given its day.
Item(raw, d) == [name |-> raw.name, day |-> d, type |-> raw.type]

\* "if count > max_places" where "if count >= max_places" stands.
day_is_over(count, max_places_) == count > max_places_

\* "if count >= max_places": the day holds as many stops as its cap allows.
day_is_full(count, max_places_) == count >= max_places_

\* PlanningAdd whose roll-over goes to the trip's final day.
PlanningAdd_to_final_day(acc, raw, total_days_) ==
    LET itin == acc.updated_itinerary
        last == itin[Len(itin)]
        replaced == /\ itin # <<>>
                    /\ get_category_group(raw.type) = get_category_group(last.type)
                    /\ raw.name # last.name
        last_day == IF itin # <<>> THEN last.day ELSE 1
        count == CountDay(itin, last_day)
    IN  IF replaced
        THEN [acc EXCEPT !.updated_itinerary = SubSeq(itin, 1, Len(itin) - 1) \o <<Item(raw, last.day)>>,
                         !.new_anchor = raw.name]
        ELSE IF day_is_full(count, max_places(last_day, total_days_))
             THEN IF last_day >= total_days_
                  THEN [acc EXCEPT !.is_full_stop = TRUE]
                  ELSE [acc EXCEPT !.updated_itinerary = Append(itin, Item(raw, total_days_)),
                                   !.new_anchor = raw.name]
             ELSE [acc EXCEPT !.updated_itinerary = Append(itin, Item(raw, last_day)),
                              !.new_anchor = raw.name]

\* PlanningAdd without the replacement of the last stop: it always appends.
PlanningAdd_append_only(acc, raw, total_days_) ==
    LET itin == acc.updated_itinerary
        last_day == IF itin # <<>> THEN itin[Len(itin)].day ELSE 1
        count == CountDay(itin, last_day)
    IN  IF day_is_full(count, max_places(last_day, total_days_))
        THEN IF last_day >= total_days_
             THEN [acc EXCEPT !.is_full_stop = TRUE]
             ELSE [acc EXCEPT !.updated_itinerary = Append(itin, Item(raw, last_day + 1)),
                              !.new_anchor = raw.name]
        ELSE [acc EXCEPT !.updated_itinerary = Append(itin, Item(raw, last_day)),
                         !.new_anchor = raw.name]

\* [CASE 1] planning: replace the last stop of the same category group, or
\* append under the day caps.
PlanningAdd(acc, raw, total_days_) ==
    LET itin == acc.updated_itinerary
        last == itin[Len(itin)]
        replaced == /\ itin # <<>>
                    /\ get_category_group(raw.type) = get_category_group(last.type)
                    /\ raw.name # last.name
        last_day == IF itin # <<>> THEN last.day ELSE 1
        count == CountDay(itin, last_day)
    IN  IF replaced
        THEN [acc EXCEPT !.updated_itinerary = SubSeq(itin, 1, Len(itin) - 1) \o <<Item(raw, last.day)>>,
                         !.new_anchor = raw.name]
        ELSE IF day_is_full(count, max_places(last_day, total_days_))
             THEN IF last_day >= total_days_
                  THEN [acc EXCEPT !.is_full_stop = TRUE]
                  ELSE [acc EXCEPT !.updated_itinerary = Append(itin, Item(raw, last_day + 1)),
                                   !.new_anchor = raw.name]
             ELSE [acc EXCEPT !.updated_itinerary = Append(itin, Item(raw, last_day)),
                              !.new_anchor = raw.name]

\* EditingAdd that never looks for the anchor: it appends to the last day.
EditingAdd_at_end(acc, raw) ==
    LET itin == acc.updated_itinerary
        target_day == IF itin # <<>> THEN itin[Len(itin)].day ELSE 1
    IN  [acc EXCEPT !.updated_itinerary = Append(itin, Item(raw, target_day)),
                    !.new_anchor = raw.name]

\* editing: insert after the anchor stop, or append to the last day.
EditingAdd(acc, raw) ==
    LET itin == acc.updated_itinerary
        hits == { i \in 1..Len(itin) : itin[i].name = acc.new_anchor }
        first == CHOOSE i \in hits : \A j \in hits : i <= j
        found == acc.new_anchor # <<>> /\ hits # {}
        insert_idx == IF found THEN first ELSE Len(itin)
        target_day == IF insert_idx = Len(itin) /\ itin # <<>> THEN itin[Len(itin)].day
                      ELSE IF found THEN itin[first].day
                      ELSE 1
    IN  [acc EXCEPT !.updated_itinerary = InsertAt(itin, insert_idx, Item(raw, target_day)),
                    !.new_anchor = raw.name]

\* History: the addition of raw that led from the stops before to acc, in
\* planning. Whether it met a full schedule, whether the last stop had its
\* category group and another name, what became of it, and its name if a stop
\* was put in the itinerary.
Attempted(before, acc, raw, total_days_) ==
    LET outcome == IF acc.updated_itinerary = before THEN "rejected"
                   ELSE IF Len(acc.updated_itinerary) = Len(before) THEN "replaced"
                   ELSE "appended"
        same == /\ before # <<>>
                /\ get_category_group(raw.type) = get_category_group(before[Len(before)].type)
                /\ raw.name # before[Len(before)].name
    IN  [acc EXCEPT !.attempts = @ \cup {[full |-> is_schedule_full("planning", before, total_days_),
                                          same |-> same,
                                          outcome |-> outcome]},
                    !.added = IF outcome = "rejected" THEN @ ELSE Append(@, raw.name)]

\* One iteration of the second loop over tool_results.
AdditionOf(acc, r, stage, total_days_) ==
    IF r.raw.k \in {"skip", "none"} \/ r.tool # FIND THEN acc
    ELSE IF r.raw.k # "place" \/ r.raw.name = <<>> \/ r.raw.name = NotFoundName THEN acc
    ELSE LET a1 == [acc EXCEPT !.modification_happened = TRUE]
             slot == a1.empty_slot_info
             target_idx == IF slot.index > Len(a1.updated_itinerary)
                           THEN Len(a1.updated_itinerary) ELSE slot.index
         IN  IF slot # NoSlot
             THEN [a1 EXCEPT !.updated_itinerary = InsertAt(@, target_idx, Item(r.raw, slot.day)),
                             !.empty_slot_info = NoSlot,
                             !.new_anchor = r.raw.name,
                             !.filled = [index |-> slot.index, day |-> slot.day, name |-> r.raw.name],
                             !.added = Append(@, r.raw.name)]
             ELSE IF stage = "planning"
                  THEN The({ Attempted(a1.updated_itinerary, a, r.raw, total_days_) :
                               a \in {PlanningAdd(a1, r.raw, total_days_)} })
             ELSE [EditingAdd(a1, r.raw) EXCEPT !.added = Append(@, r.raw.name)]

\* The iteration, and its history: the id of the tool call whose result put a
\* stop in the itinerary, and the index (from 0) the stop was put at.
AdditionStep(acc, r, stage, total_days_) ==
    The({ IF Len(a.added) > Len(acc.added)
          THEN [a EXCEPT !.applied = Append(@, [id |-> r.id, kind |-> "add", index |-> -1])]
          ELSE a :
            a \in {AdditionOf(acc, r, stage, total_days_)} })

RECURSIVE AdditionLoop_backwards(_, _, _, _, _)
\* The second loop taking the tool results from the last to the first.
AdditionLoop_backwards(acc, results, i, stage, total_days_) ==
    IF i > Len(results) THEN acc
    ELSE The({ AdditionLoop_backwards(a, results, i + 1, stage, total_days_) :
                 a \in {AdditionStep(acc, results[Len(results) - i + 1], stage, total_days_)} })

RECURSIVE AdditionLoop(_, _, _, _, _)
\* "for tool_message, tool_name, raw_json_output in tool_results".
AdditionLoop(acc, results, i, stage, total_days_) ==
    IF i > Len(results) THEN acc
    ELSE The({ AdditionLoop(a, results, i + 1, stage, total_days_) :
                 a \in {AdditionStep(acc, results[i], stage, total_days_)} })

\* The five values process_additions returns, and the history of the pass: the
\* slot it filled (the slot's index and day, the name put there), the planning
\* additions, and the names of the stops it put in the itinerary, in order.
process_additions(tool_results, itinerary_, empty_slot_info, stage, anchor, total_days_) ==
    LET acc == AdditionLoop([updated_itinerary |-> places_only(itinerary_),
                             empty_slot_info |-> empty_slot_info,
                             new_anchor |-> anchor,
                             modification_happened |-> FALSE,
                             is_full_stop |-> FALSE,
                             filled |-> NoFill,
                             attempts |-> {},
                             added |-> <<>>,
                             applied |-> <<>>],
                            tool_results, 1, stage, total_days_)
    IN  [updated_itinerary |-> acc.updated_itinerary,
         new_anchor |-> acc.new_anchor,
         modification_happened |-> acc.modification_happened,
         show_pdf |-> \E i \in 1..Len(tool_results) : tool_results[i].tool = CONFIRM,
         is_full_stop |-> acc.is_full_stop,
         filled |-> acc.filled,
         attempts |-> acc.attempts,
         added |-> acc.added,
         applied |-> acc.applied]

\* ------------------------------------------------------- update_timeline
\* plan_itinerary_timeline awaits SmartScheduler.plan_day, which is a plain
\* function: with any stop to schedule the await raises, the tool's except
\* clause answers with the itinerary it was given; with none it answers [].
plan_itinerary_timeline(itinerary_) ==
    IF places_only(itinerary_) = <<>> THEN <<>> ELSE itinerary_

\* should_calculate that reads the request alone, in either stage.
should_calculate_on_request(is_changed, modification_happened, explicit_reschedule, current_stage) ==
    explicit_reschedule

should_calculate(is_changed, modification_happened, explicit_reschedule, current_stage) ==
    IF current_stage = "planning" THEN explicit_reschedule /\ is_changed
    ELSE explicit_reschedule \/ modification_happened

update_timeline(itinerary_, old_itinerary, modification_happened, explicit_reschedule, current_stage) ==
    IF should_calculate(old_itinerary # itinerary_, modification_happened,
                        explicit_reschedule, current_stage)
    THEN plan_itinerary_timeline(itinerary_)
    ELSE itinerary_

\* ------------------------------------------------------- ordering
DaysOf(items) == { items[i].day : i \in 1..Len(items) }

RECURSIVE ConcatDays(_, _, _)
\* The concatenation of f[d] over the days of ds from low, in ascending order.
ConcatDays(f, ds, low) ==
    IF \A d \in ds : d < low THEN <<>>
    ELSE LET d == CHOOSE d \in ds : d >= low /\ \A e \in ds : e >= low => d <= e
         IN  f[d] \o ConcatDays(f, ds, d + 1)

GroupOf(items, g) == SelectSeq(items, LAMBDA x : get_category_group(x.type) = g)

\* SortedDay that keeps one restaurant a day.
SortedDay_one_meal(day_items, day) ==
    LET rests == GroupOf(day_items, "restaurant")
        cafes == GroupOf(day_items, "cafe")
        tours == GroupOf(day_items, "attraction")
        first == IF rests # <<>> THEN <<Head(rests)>> ELSE <<>>
    IN  IF day = 1 THEN first \o cafes \o tours
        ELSE tours \o first \o cafes

\* One day's stops in the fixed category sequence.
SortedDay(day_items, day) ==
    LET rests == GroupOf(day_items, "restaurant")
        cafes == GroupOf(day_items, "cafe")
        tours == GroupOf(day_items, "attraction")
        first == IF rests # <<>> THEN <<Head(rests)>> ELSE <<>>
        rest == IF rests # <<>> THEN Tail(rests) ELSE <<>>
    IN  IF day = 1 THEN first \o cafes \o tours \o rest
        ELSE tours \o first \o cafes \o rest

reorganize_itinerary_planning(items) ==
    LET day_sorted == [ d \in DaysOf(items) |->
                          SortedDay(SelectSeq(items, LAMBDA x : x.day = d), d) ]
    IN  ConcatDays(day_sorted, DaysOf(items), 0)

\* sorted(final_itinerary, key=lambda x: x.get('day', 1)): a stable sort.
SortByDay(items) ==
    LET day_items == [ d \in DaysOf(items) |-> SelectSeq(items, LAMBDA x : x.day = d) ]
    IN  ConcatDays(day_items, DaysOf(items), 0)

\* ------------------------------------------------------- call_tools_node
\* Step 5: the category sequence in planning, a sort by day otherwise.
Sorted(current_stage, final_itinerary) ==
    IF current_stage = "planning" THEN reorganize_itinerary_planning(final_itinerary)
    ELSE SortByDay(final_itinerary)

\* The tool messages call_tools_node returns: process_deletions' outputs, the
\* last one rewritten on a full stop, then the confirmation tool's message.
ToolOutputs(outputs, is_full_stop, show_pdf, pdf_ok) ==
    LET warned == IF is_full_stop /\ outputs # <<>>
                  THEN [outputs EXCEPT ![Len(outputs)] = ToolMsg("full")]
                  ELSE outputs
    IN  IF show_pdf /\ pdf_ok THEN Append(warned, ToolMsg("result")) ELSE warned

\* The stage of a pass that starts from "planning" whenever no timeline was
\* asked for.
next_stage_reset(explicit_reschedule, current_stage) ==
    IF explicit_reschedule THEN "editing" ELSE "planning"

\* The stage of a pass that sets "editing" without reading explicit_reschedule.
next_stage_always(explicit_reschedule, current_stage) == "editing"

\* "if explicit_reschedule: current_stage = "editing"".
next_stage(explicit_reschedule, current_stage) ==
    IF explicit_reschedule THEN "editing" ELSE current_stage

\* Steps 4 and 5 of call_tools_node and its return value, given what
\* process_deletions (del) and process_additions (add) returned.
Recalculated(del, add, current_ban_list, final_slot_info, pdf_ok, state_itinerary, stage) ==
    LET next_remembered_spot == IF add.modification_happened THEN NoSlot ELSE final_slot_info
        modification_happened == del.modification_happened \/ add.modification_happened
        current_stage == next_stage(del.explicit_reschedule, stage)
    IN  [messages |-> ToolOutputs(del.tool_outputs, add.is_full_stop, add.show_pdf, pdf_ok),
         itinerary |-> Sorted(current_stage,
                              update_timeline(add.updated_itinerary, state_itinerary,
                                              modification_happened, del.explicit_reschedule,
                                              stage)),
         unsorted |-> update_timeline(add.updated_itinerary, state_itinerary,
                                      modification_happened, del.explicit_reschedule, stage),
         show_pdf_button |-> add.show_pdf,
         dialog_stage |-> current_stage,
         current_anchor |-> add.new_anchor,
         ban_list |-> current_ban_list,
         last_deleted_spot |-> next_remembered_spot,
         removed |-> del.removed,
         filled |-> add.filled,
         attempts |-> add.attempts,
         added |-> add.added,
         applied |-> del.applied \o add.applied,
         unmatched |-> del.unmatched,
         rescheduled |-> should_calculate(state_itinerary # add.updated_itinerary,
                                          modification_happened, del.explicit_reschedule, stage)]

\* Steps 2b and 3 with the additions processed on the itinerary as it stood
\* before the deletions, and the deletions applied to what they leave.
Added_before_deleting(tool_results, del, pdf_ok, state_itinerary, stage, anchor, ban, saved_slot_info, total_days_) ==
    LET add0 == process_additions(tool_results, state_itinerary, saved_slot_info,
                                  stage, anchor, total_days_)
        del2 == process_deletions(tool_results, add0.updated_itinerary)
        final_slot_info == IF del2.empty_slot_info # NoSlot THEN del2.empty_slot_info
                           ELSE saved_slot_info
    IN  Recalculated([del2 EXCEPT !.applied = add0.applied \o del2.applied],
                     [add0 EXCEPT !.updated_itinerary = del2.places_only, !.applied = <<>>],
                     ban, final_slot_info, pdf_ok, state_itinerary, stage)

\* Steps 2b and 3 of call_tools_node, given the tool results and what
\* process_deletions returned.
Added(tool_results, del, pdf_ok, state_itinerary, stage, anchor, ban, saved_slot_info, total_days_) ==
    LET intents == { tool_results[i].raw.tgt :
                       i \in { j \in 1..Len(tool_results) : tool_results[j].tool \in {DELETE, REPLACE} } }
        current_ban_list == IF del.modification_happened /\ del.empty_slot_info # NoSlot
                            THEN ban \cup (intents \ {<<>>})
                            ELSE ban
        final_slot_info == IF del.empty_slot_info # NoSlot THEN del.empty_slot_info
                           ELSE saved_slot_info
    IN  The({ Recalculated(del, add, current_ban_list, final_slot_info, pdf_ok, state_itinerary, stage) :
                add \in { process_additions(tool_results, del.places_only, final_slot_info,
                                            stage, anchor, total_days_) } })

\* Step 2 of call_tools_node, given the tool results.
Deleted(tool_results, pdf_ok, state_itinerary, stage, anchor, ban, saved_slot_info, total_days_) ==
    The({ Added(tool_results, del, pdf_ok, state_itinerary, stage, anchor, ban, saved_slot_info,
                total_days_) :
            del \in { process_deletions(tool_results, state_itinerary) } })

\* (History in the value Recalculated returns: removed, filled, attempts, added,
\* applied, unmatched, rescheduled, whether update_timeline invoked the
\* timeline tool, and unsorted, the list step 5 was given.)
\* The state update call_tools_node returns. calls: the tool calls of the last
\* message; outs: the search tool's answers; pdf_ok: whether the confirmation
\* tool ran without raising.
call_tools_node(calls, outs, pdf_ok, state_itinerary, stage, anchor, ban, saved_slot_info, total_days_) ==
    The({ Deleted(tool_results, pdf_ok, state_itinerary, stage, anchor, ban, saved_slot_info,
                  total_days_)
            @@ [anchors |-> { tool_results[i].anchor : i \in 1..Len(tool_results) } \ {EmptyStr}] :
            tool_results \in { execute_tools(calls, outs, stage, state_itinerary, anchor,
                                             total_days_) } })

\* ------------------------------------------------------- SmartScheduler
\* Times are seconds from midnight of the scheduler's start_date.
\* DEFAULT_DURATIONS: minutes of stay by the keyword the type holds (the
\* keywords stand for the Korean ones, in the dictionary's order).
DEFAULT_DURATIONS ==
    [restaurant |-> 90, cafe |-> 60, attraction |-> 120, trail |-> 60, theme_park |-> 180,
     lodging |-> 0]

\* A name that holds the word for cafe or coffee; for restaurant.
CafeWord == <<"c", "f">>
MealWord == <<"m", "l">>

\* SmartScheduler._estimate_duration.
estimate_duration(place_info) ==
    IF place_info.type \in DOMAIN DEFAULT_DURATIONS THEN DEFAULT_DURATIONS[place_info.type]
    ELSE IF IsSubstring(CafeWord, place_info.name) THEN 60
    ELSE IF IsSubstring(MealWord, place_info.name) THEN 90
    ELSE 90

\* int(s) for a string of digits.
RECURSIVE ParseInt(_)
ParseInt(cs) ==
    IF cs = <<>> THEN 0
    ELSE ParseInt(SubSeq(cs, 1, Len(cs) - 1)) * 10
         + (CHOOSE d \in 0..9 : ToString(d) = cs[Len(cs)])

\* The start time plan_itinerary_timeline gives every scheduler it makes.
StartTimeStr == <<"1", "0", ":", "0", "0">>

\* SmartScheduler.__init__: h, m = map(int, start_time_str.split(":")), and
\* current_time is that time of the start date.
SchedulerInit(start_time_str) ==
    LET colon == CHOOSE i \in 1..Len(start_time_str) : start_time_str[i] = ":"
        h == ParseInt(SubSeq(start_time_str, 1, colon - 1))
        m == ParseInt(SubSeq(start_time_str, colon + 1, Len(start_time_str)))
    IN  h * 3600 + m * 60

\* strftime("%H:%M") and the suffix " (+N일)" of a time on a later date: the
\* hour, the minute, and the days since the start date.
FormatTime(t) == [h |-> (t \div 3600) % 24, m |-> (t \div 60) % 60, days |-> t \div 86400]

\* route_result.get('duration_value', 1800); the gap where no route is found.
DefaultTravelSeconds == 1800
NoRouteMinutes == 10

\* get_detailed_route is a coroutine function and plan_day calls it without
\* awaiting: the call evaluates none of its body and returns a coroutine
\* object, whatever the route resolver would answer.
get_detailed_route(answer) == [kind |-> "coroutine", result |-> answer]

\* "if route_result": None is false, a dict with keys and a coroutine object
\* are true.
Truthy(route_result) == route_result.kind # "none"

\* The loop of plan_day from the i-th place on. route_result.get raises
\* AttributeError on a coroutine object; the exception leaves plan_day.
RECURSIVE PlanFrom(_, _, _, _, _)
PlanFrom(places, answers, i, cursor_time, timeline) ==
    IF i > Len(places) THEN [raised |-> FALSE, timeline |-> timeline, cursor |-> cursor_time]
    ELSE LET route_result == IF i > 1 THEN get_detailed_route(answers[i - 1])
                             ELSE [kind |-> "none"]
             found == i > 1 /\ Truthy(route_result)
             travel_seconds == IF route_result.duration_value >= 0
                               THEN route_result.duration_value ELSE DefaultTravelSeconds
             start == IF i = 1 THEN cursor_time
                      ELSE IF found THEN cursor_time + travel_seconds
                      ELSE cursor_time + NoRouteMinutes * 60
             stay_minutes == estimate_duration(places[i])
             travel_info == [type |-> "move", name |-> places[i].name,
                             start |-> FormatTime(cursor_time), end |-> FormatTime(start),
                             duration_minutes |-> 0]
             activity_info == [type |-> "activity", name |-> places[i].name,
                               category |-> places[i].type,
                               start |-> FormatTime(start),
                               end |-> FormatTime(start + stay_minutes * 60),
                               duration_minutes |-> stay_minutes]
         IN  IF found /\ route_result.kind # "route"
             THEN [raised |-> TRUE, timeline |-> <<>>, cursor |-> cursor_time]
             ELSE PlanFrom(places, answers, i + 1, start + stay_minutes * 60,
                           (IF found THEN Append(timeline, travel_info) ELSE timeline)
                              \o <<activity_info>>)

\* plan_day that keeps its cursor in self.current_time when it returns.
plan_day_advancing(self, places, answers) ==
    LET r == PlanFrom(places, answers, 1, self.current_time, <<>>)
    IN  [raised |-> r.raised, timeline |-> r.timeline,
         current_time |-> IF r.raised THEN self.current_time ELSE r.cursor]

\* SmartScheduler.plan_day: what it returns (or that it raised), and
\* self.current_time after the call, which plan_day never assigns.
plan_day(self, places, answers) ==
    LET r == PlanFrom(places, answers, 1, self.current_time, <<>>)
    IN  [raised |-> r.raised, timeline |-> r.timeline, current_time |-> self.current_time]

\* "await scheduler.plan_day(day_items)": plan_day is a plain function, so the
\* call runs it first (o: what it returned, or that it raised) and await then
\* gets a list, which is not awaitable: the expression raises in either case.
await_plan_day(o) == [raised |-> TRUE, timeline |-> <<>>]

\* plan_itinerary_timeline on the stops of one day (day_items, with their
\* day): the timeline of the day, or, from the except clause, the itinerary
\* it was given.
timeline_of_day(day_items, answers) ==
    LET scheduler == [current_time |-> SchedulerInit(StartTimeStr)]
        day_schedule == await_plan_day(plan_day(scheduler, day_items, answers))
    IN  IF day_items = <<>> THEN <<>>
        ELSE IF day_schedule.raised THEN day_items
        ELSE [ k \in 1..Len(day_schedule.timeline) |->
                 day_schedule.timeline[k] @@ [day |-> day_items[1].day] ]

\* No scheduler.
NoSched == [current_time |-> -1, made |-> 0, day |-> 0, places |-> <<>>, answers |-> <<>>,
            runs |-> <<>>, tool_runs |-> <<>>, reruns |-> <<>>]

\* ------------------------------------------------------- _solve_tsp
\* float('inf'), and the value optimize_and_get_routes gives a pair of places
\* the distance matrix has no duration for.
inf == 1000000000
no_duration == 99999

\* dur_matrix of optimize_and_get_routes for n places, rows and columns
\* numbered from 0: durations along a line, around a one-way ring, without
\* any duration, and uneven ones with ties.
dur_matrix(kind, n) ==
    [ i \in 0..(n - 1) |->
        [ j \in 0..(n - 1) |->
            IF kind = "line" THEN 60 * (IF i < j THEN j - i ELSE i - j)
            ELSE IF kind = "ring" THEN 60 * ((j - i) % n)
            ELSE IF kind = "none" THEN no_duration
            ELSE IF i = j THEN 0 ELSE 60 * (1 + ((i * i + 3 * j) % 5)) ] ]

\* The while loop of the branch for more than 8 free indices: min() over the
\* unvisited set, whose iteration is in ascending order for small integers.
RECURSIVE nearest_neighbour(_, _, _, _, _)
nearest_neighbour(duration_matrix, path, cost, current, unvisited) ==
    IF unvisited = {} THEN [best_order_indices |-> path, min_duration |-> cost]
    ELSE LET nxt == CHOOSE i \in unvisited :
                        \A j \in unvisited :
                            \/ duration_matrix[current][i] < duration_matrix[current][j]
                            \/ duration_matrix[current][i] = duration_matrix[current][j] /\ i <= j
         IN  nearest_neighbour(duration_matrix, Append(path, nxt),
                               cost + duration_matrix[current][nxt], nxt, unvisited \ {nxt})

\* "for p in permutations(indices)": the permutations in the order itertools
\* yields them (k is the next index to try at this position), each with the
\* duration of its legs; best is the first one of the least duration so far.
RECURSIVE permutations(_, _, _, _, _, _)
permutations(duration_matrix, current_indices, current_dur, unused, k, best) ==
    IF unused = {}
    THEN IF current_dur < best.min_duration
         THEN [best_order_indices |-> current_indices, min_duration |-> current_dur]
         ELSE best
    ELSE IF k \notin DOMAIN duration_matrix THEN best
    ELSE IF k \notin unused
         THEN permutations(duration_matrix, current_indices, current_dur, unused, k + 1, best)
    ELSE The({ permutations(duration_matrix, current_indices, current_dur, unused, k + 1, b) :
                 b \in { permutations(duration_matrix, Append(current_indices, k),
                                       IF current_indices = <<>> THEN 0
                                       ELSE current_dur + duration_matrix[current_indices[Len(current_indices)]][k],
                                       unused \ {k}, 0, best) } })

solve_tsp(duration_matrix, start_fixed, n) ==
    LET indices == IF start_fixed THEN 1..(n - 1) ELSE 0..(n - 1)
    IN  IF Cardinality(indices) > 8
        THEN nearest_neighbour(duration_matrix, <<0>>, 0, 0, indices)
        ELSE permutations(duration_matrix, IF start_fixed THEN <<0>> ELSE <<>>, 0, indices, 0,
                          [best_order_indices |-> <<>>, min_duration |-> inf])

\* No call of _solve_tsp.
NoTsp == [n |-> 0, start_fixed |-> FALSE, kind |-> "none", solved |-> FALSE,
          best_order_indices |-> <<>>, min_duration |-> 0]

\* ------------------------------------------------------- routers
\* entry_router without its keyword test.
entry_router_stage_only(current_stage, last_message) ==
    IF current_stage = "editing" THEN "EditorAgent" ELSE "PlannerAgent"

entry_router(current_stage, last_message) ==
    IF current_stage = "editing" THEN "EditorAgent"
    ELSE IF last_message.kind = "human" /\ last_message.content = "edit" THEN "EditorAgent"
    ELSE "PlannerAgent"

\* msgs: the last messages, the newest last.
agent_router(msgs) ==
    LET n == Len(msgs)
        last_message == msgs[n]
        guarded == /\ n >= 3
                   /\ msgs[n - 1].kind = "tool"
                   /\ msgs[n - 2].kind = "ai"
                   /\ last_message.tools \cap target_tools \cap msgs[n - 2].tools # {}
    IN  IF last_message.tool_calls
        THEN IF guarded THEN "EditorAgent" ELSE "call_tools"
        ELSE "END"

\* route_after_tools without its first test (show_pdf_button).
route_after_tools_unconfirmed(show_pdf_button_, msgs, stage) ==
    IF msgs[Len(msgs)].kind = "ai" THEN "END"
    ELSE IF stage = "editing" THEN "EditorAgent"
    ELSE "PlannerAgent"

route_after_tools(show_pdf_button_, msgs, stage) ==
    IF show_pdf_button_ THEN "END"
    ELSE IF msgs[Len(msgs)].kind = "ai" THEN "END"
    ELSE IF stage = "editing" THEN "EditorAgent"
    ELSE "PlannerAgent"

\* The names build_graph maps for the conditional edges leaving each agent.
EdgeMap(node) ==
    IF node = "PlannerAgent" THEN {"call_tools", "EditorAgent", "END"}
    ELSE {"call_tools", "PlannerAgent", "END"}

\* ------------------------------------------------------- run_ai_agent
Clamp(day, total_days_) == IF day < 1 THEN 1 ELSE IF day > total_days_ THEN total_days_ ELSE day

\* _normalize_itinerary_for_pdf: the day within 1..total_days, a default name.
normalize_itinerary_for_pdf(itinerary_, total_days_) ==
    [ i \in 1..Len(itinerary_) |->
        [itinerary_[i] EXCEPT !.day = Clamp(@, total_days_),
                              !.name = IF itinerary_[i].type = "move" /\ @ = <<>>
                                       THEN DefaultName ELSE @] ]

\* ------------------------------------------------------- state
\* One session. Between turns (pc = "idle") the variables hold what
\* st.session_state keeps; during a turn they hold the graph's AgentState.
VARIABLES
    total_days,          \* st.session_state.total_days
    pc,                  \* idle, the graph node about to run, END, or failed
    steps,               \* the graph steps the turn has taken (counted in LoopSpec)
    messages,            \* the last two messages of the turn
    tool_calls,          \* the tool calls (with arguments) of the last message
    itinerary,
    dialog_stage,        \* the graph state's dialog_stage during a turn
    session_stage,       \* st.session_state.dialog_stage
    current_anchor,
    show_pdf_button,
    ban_list,            \* read only through "in": a set
    last_deleted_spot,
    deleted_names,       \* history: the names of the stops removed in the session
    last_pass,           \* history: what the turn's latest tool pass did
    sched,               \* a SmartScheduler, the day it is given, and its runs (SchedSpec)
    tsp                  \* a call of _solve_tsp: its arguments and its result (TspSpec)

vars == <<total_days, pc, steps, messages, tool_calls, itinerary, dialog_stage, session_stage,
          current_anchor, show_pdf_button, ban_list, last_deleted_spot, deleted_names, last_pass,
          sched, tsp>>

\* last_pass before the turn's first tool pass. tools: the pass's calls of
\* target_tools (and of replace_place, where the history is kept). signal: the pass rewrote a tool
\* message to the full-stop warning; signalled: a pass of the turn did.
NoPass ==
    [tools |-> {}, filled |-> NoFill, attempts |-> {}, added |-> <<>>, signal |-> FALSE,
     applied |-> <<>>, anchors |-> {}, unmatched |-> {}, removed |-> {}, rescheduled |-> FALSE,
     signalled |-> FALSE, unsorted |-> <<>>]

\* ------------------------------------------------------- inputs
\* The tool-call lists an agent's answer may carry in Spec.
ToolCalls ==
    { Call(FIND, <<>>), Call(TIMELINE, <<>>), Call(CONFIRM, <<>>) }
    \cup { Call(DELETE, t) : t \in Targets }

ToolCallLists ==
    { <<c>> : c \in ToolCalls }
    \cup { <<Call(FIND, <<>>), Call(FIND, <<>>)>>,
           <<Call(FIND, <<>>), Call(TIMELINE, <<>>)>>,
           <<Call(FIND, <<>>), Call(REPLACE, NameAB)>>,
           <<>> }

\* In PlanSpec: searches only.
PlanLists ==
    { <<Call(FIND, <<>>)>>, <<Call(FIND, <<>>), Call(FIND, <<>>)>>, <<>> }

\* In EditSpec: searches, deletions and replacements, alone and together.
EditLists ==
    { <<Call(FIND, <<>>)>>, <<Call(FIND, <<>>), Call(FIND, <<>>)>>, <<Call(TIMELINE, <<>>)>>,
      <<Call(FIND, <<>>), Call(REPLACE, NameAB)>>,
      <<Call(REPLACE, NameAB), Call(FIND, <<>>)>>,
      <<Call(DELETE, NameAB), Call(FIND, <<>>)>>,
      <<Call(REPLACE, NameAB)>>,
      <<Call(DELETE, NameAB), Call(DELETE, <<"c", " ", "d">>)>>,
      <<>> }
    \cup { <<Call(DELETE, t)>> : t \in Targets }

\* In TestSpec: a search, a timeline request, a deletion, or plain text.
TestLists ==
    { <<Call(FIND, <<>>)>>, <<Call(TIMELINE, <<>>)>>, <<Call(DELETE, MockTarget)>>, <<>> }

\* In LoopSpec: the agents keep requesting the timeline or the route tool.
LoopLists ==
    { <<Call(TIMELINE, <<>>)>>, <<Call(OPTIMIZE, <<>>)>>,
      <<Call(FIND, <<>>), Call(TIMELINE, <<>>)>> }

CallNames(calls) == [ i \in 1..Len(calls) |-> calls[i].name ]

\* The last two messages of msgs: what a later router can still read of them
\* once the next message is appended.
Last2(msgs) == IF Len(msgs) <= 2 THEN msgs ELSE SubSeq(msgs, Len(msgs) - 1, Len(msgs))

\* The answers of the search tool for each call of calls (RawNone where the
\* call is no search).
OutcomeSets(calls, answers) ==
    { outs \in [1..Len(calls) -> answers \cup {RawNone}] :
        \A i \in 1..Len(calls) : calls[i].name # FIND => outs[i] = RawNone }

\* Whether the confirmation tool runs without raising, where it is called.
PdfOutcomes(calls) ==
    IF \E i \in 1..Len(calls) : calls[i].name = CONFIRM THEN BOOLEAN ELSE {TRUE}

\* ------------------------------------------------------- Init
SessionInit(days) ==
    /\ total_days \in 1..days
    /\ pc = "idle"
    /\ steps = 0
    /\ messages = <<>>
    /\ tool_calls = <<>>
    /\ itinerary = <<>>
    /\ dialog_stage = "planning"
    /\ session_stage = "planning"
    /\ current_anchor = EmptyStr
    /\ show_pdf_button = FALSE
    /\ ban_list = {}
    /\ last_deleted_spot = NoSlot
    /\ deleted_names = {}
    /\ last_pass = NoPass

\* The session before its first turn; no scheduler exists outside a call of
\* the timeline tool.
InitDays(days) == SessionInit(days) /\ sched = NoSched /\ tsp = NoTsp

Init == InitDays(MaxDays)

\* ------------------------------------------------------- actions
\* The user sends a message (with or without an edit keyword): run_ai_agent
\* builds the graph state from the session, which keeps neither ban_list nor
\* last_deleted_spot, and entry_router picks the agent.
StartTurn ==
    /\ pc = "idle"
    /\ \E content \in {"edit", "plain"} :
          /\ messages' = <<HumanMsg(content)>>
          /\ pc' = entry_router(dialog_stage, HumanMsg(content))
    /\ steps' = 0
    /\ tool_calls' = <<>>
    /\ ban_list' = {}
    /\ last_deleted_spot' = NoSlot
    /\ last_pass' = NoPass
    /\ UNCHANGED <<total_days, itinerary, dialog_stage, session_stage, current_anchor,
                   show_pdf_button, deleted_names, sched, tsp>>

\* An agent node answers with one of lists (the empty list: plain text) and
\* agent_router routes. A name agent_router returns that the node's edge map
\* lacks makes the graph runtime's lookup fail: the exception leaves the graph
\* and run_ai_agent, and nothing of the turn is stored.
AgentNode(node, lists) ==
    /\ pc = node
    /\ \E calls \in lists :
          LET msgs == Append(messages, AIMsg(calls))
              to == agent_router(msgs)
          IN  IF to \in EdgeMap(node)
              THEN /\ pc' = to
                   /\ messages' = Last2(msgs)
                   /\ tool_calls' = calls
              ELSE /\ pc' = "failed"
                   /\ messages' = <<>>
                   /\ tool_calls' = <<>>
    /\ UNCHANGED <<total_days, itinerary, dialog_stage, session_stage, current_anchor,
                   show_pdf_button, ban_list, last_deleted_spot, deleted_names, last_pass, sched, tsp>>

\* The language model call of an agent node raises: the exception leaves the
\* graph and run_ai_agent, and nothing of the turn is stored (session_stage
\* keeps the stage the session holds). The session then stands where it stood
\* before the turn, a state reached with pc = "idle" before, so the turns that
\* follow a failed one are not followed again.
AgentFails ==
    /\ pc \in {"PlannerAgent", "EditorAgent"}
    /\ pc' = "failed"
    /\ messages' = <<>>
    /\ tool_calls' = <<>>
    /\ UNCHANGED <<total_days, itinerary, dialog_stage, session_stage, current_anchor,
                   show_pdf_button, ban_list, last_deleted_spot, deleted_names, last_pass, sched, tsp>>

\* call_tools_node, then route_after_tools. The search tool answers from
\* catalog; a pass that would leave more than max_stops stops is not explored;
\* log: whether the history keeps which results were applied, which anchor
\* the searches were given and which names were removed; filter_fails: whether
\* the search tool's filtering of the candidates may raise.
ToolPass(catalog, choices, max_stops, log, filter_fails) ==
    /\ pc = "call_tools"
    /\ \E outs \in OutcomeSets(tool_calls,
                              SearchAnswers(catalog, choices,
                                            final_exclude_list(itinerary, ban_list),
                                            filter_fails)),
          pdf_ok \in PdfOutcomes(tool_calls) :
          \E r \in { call_tools_node(tool_calls, outs, pdf_ok, itinerary, dialog_stage,
                                     current_anchor, ban_list, last_deleted_spot, total_days) } :
             LET msgs == Last2(messages \o r.messages)
             IN  /\ Len(r.itinerary) <= max_stops
                 /\ messages' = msgs
                 /\ itinerary' = r.itinerary
                 /\ show_pdf_button' = r.show_pdf_button
                 /\ dialog_stage' = r.dialog_stage
                 /\ current_anchor' = r.current_anchor
                 /\ ban_list' = r.ban_list
                 /\ last_deleted_spot' = r.last_deleted_spot
                 /\ deleted_names' = deleted_names \cup r.removed
                 /\ last_pass' = [tools |-> ToolSet(CallNames(tool_calls))
                                            \cap (IF log THEN target_tools \cup {REPLACE}
                                                  ELSE target_tools),
                                  filled |-> r.filled,
                                  attempts |-> r.attempts,
                                  added |-> r.added,
                                  applied |-> IF log THEN r.applied ELSE <<>>,
                                  anchors |-> IF log THEN r.anchors ELSE {},
                                  unmatched |-> IF log THEN r.unmatched ELSE {},
                                  removed |-> IF log THEN r.removed ELSE {},
                                  rescheduled |-> r.rescheduled,
                                  unsorted |-> IF log THEN r.unsorted ELSE <<>>,
                                  signal |-> \E i \in 1..Len(r.messages) :
                                                r.messages[i].content = "full",
                                  signalled |-> \/ last_pass.signalled
                                                \/ \E i \in 1..Len(r.messages) :
                                                      r.messages[i].content = "full"]
                 /\ pc' = route_after_tools(r.show_pdf_button, msgs, r.dialog_stage)
    /\ tool_calls' = <<>>
    /\ UNCHANGED <<total_days, session_stage, sched, tsp>>

\* The graph reached END: run_ai_agent stores the response's messages,
\* itinerary (normalized), show_pdf_button, current_anchor and dialog_stage
\* (session_stage: the other stored values stay in their variables).
EndTurn ==
    /\ pc = "END"
    /\ pc' = "idle"
    /\ steps' = 0
    /\ itinerary' = normalize_itinerary_for_pdf(itinerary, total_days)
    /\ messages' = <<>>
    /\ tool_calls' = <<>>
    /\ ban_list' = {}
    /\ last_deleted_spot' = NoSlot
    /\ last_pass' = NoPass
    /\ session_stage' = dialog_stage
    /\ UNCHANGED <<total_days, dialog_stage, current_anchor, show_pdf_button, deleted_names,
                   sched, tsp>>

\* The developer's test button (the sidebar of the planner page), between two
\* turns: it stores the test itinerary and its number of days in the session.
\* The destination, dates and weather it stores too are no state of the model
\* (Destination stands for the destination the session holds), and the PDF it
\* then builds from a normalized copy changes nothing of the session.
LoadTestData ==
    /\ pc = "idle"
    /\ itinerary' = mock_itinerary
    /\ total_days' = mock_total_days
    /\ UNCHANGED <<pc, steps, messages, tool_calls, dialog_stage, session_stage, current_anchor,
                   show_pdf_button, ban_list, last_deleted_spot, deleted_names, last_pass, sched, tsp>>

\* ------------------------------------------------------- Spec
\* The session: turns of any number of steps.
PlannerAgent == AgentNode("PlannerAgent", ToolCallLists) /\ UNCHANGED steps
EditorAgent == AgentNode("EditorAgent", ToolCallLists) /\ UNCHANGED steps
AgentRaises == AgentFails /\ UNCHANGED steps
CallTools == ToolPass(Catalog, FinderChoices, MaxStops, FALSE, FALSE) /\ UNCHANGED steps

Next ==
    \/ StartTurn
    \/ PlannerAgent
    \/ EditorAgent
    \/ AgentRaises
    \/ CallTools
    \/ EndTurn

Spec == Init /\ [][Next]_vars

\* ------------------------------------------------------- PlanSpec
\* Searches only, over trips of up to PlanDays days.
PlanInit == InitDays(PlanDays)
PlanPlanner == AgentNode("PlannerAgent", PlanLists) /\ UNCHANGED steps
PlanEditor == AgentNode("EditorAgent", PlanLists) /\ UNCHANGED steps
PlanCallTools == ToolPass(PlanCatalog, PlanChoices, PlanStops, FALSE, FALSE) /\ UNCHANGED steps

PlanNext ==
    \/ StartTurn
    \/ PlanPlanner
    \/ PlanEditor
    \/ PlanCallTools
    \/ EndTurn

PlanSpec == PlanInit /\ [][PlanNext]_vars

\* ------------------------------------------------------- LoopSpec
\* The agents keep requesting the timeline or the route tool; the graph
\* runtime counts the steps of the turn and raises at RecursionLimit.
LoopPlanner ==
    /\ steps < RecursionLimit
    /\ AgentNode("PlannerAgent", LoopLists)
    /\ steps' = steps + 1

LoopEditor ==
    /\ steps < RecursionLimit
    /\ AgentNode("EditorAgent", LoopLists)
    /\ steps' = steps + 1

LoopCallTools ==
    /\ steps < RecursionLimit
    /\ ToolPass(Catalog, FinderChoices, MaxStops, FALSE, FALSE)
    /\ steps' = steps + 1

RecursionError ==
    /\ pc \in {"PlannerAgent", "EditorAgent", "call_tools"}
    /\ steps >= RecursionLimit
    /\ pc' = "failed"
    /\ messages' = <<>>
    /\ tool_calls' = <<>>
    /\ UNCHANGED <<total_days, steps, itinerary, dialog_stage, session_stage, current_anchor,
                   show_pdf_button, ban_list, last_deleted_spot, deleted_names, last_pass, sched, tsp>>

LoopNext ==
    \/ StartTurn
    \/ LoopPlanner
    \/ LoopEditor
    \/ LoopCallTools
    \/ RecursionError

LoopSpec == Init /\ [][LoopNext]_vars

\* ------------------------------------------------------- EditSpec
\* Edits of a one-day trip, with the history of each pass.
EditPlanner == AgentNode("PlannerAgent", EditLists) /\ UNCHANGED steps
EditEditor == AgentNode("EditorAgent", EditLists) /\ UNCHANGED steps
EditCallTools == ToolPass(Catalog, EditChoices, EditStops, TRUE, FALSE) /\ UNCHANGED steps

EditNext ==
    \/ StartTurn
    \/ EditPlanner
    \/ EditEditor
    \/ EditCallTools
    \/ EndTurn

EditSpec == InitDays(EditDays) /\ [][EditNext]_vars

\* ------------------------------------------------------- SchedSpec
\* The stops a day may hold, and what the route resolver may answer for a
\* leg: no route, a route with its duration, a route without a duration.
SchedPlaces ==
    { [name |-> <<"x">>, type |-> "attraction"],
      [name |-> <<"y">>, type |-> "restaurant"],
      [name |-> <<"c", "f">>, type |-> "shop"],
      [name |-> <<"g">>, type |-> "museum"] }

SchedAnswers ==
    { [kind |-> "none"],
      [kind |-> "route", duration_value |-> 900],
      [kind |-> "route", duration_value |-> -1] }

\* plan_itinerary_timeline makes a scheduler and gives it the stops of a day.
SchedInit ==
    /\ SessionInit(1)
    /\ tsp = NoTsp
    /\ \E day \in 1..SchedDays, n \in 1..SchedStops :
          \E places \in [1..n -> SchedPlaces], answers \in [1..(n - 1) -> SchedAnswers] :
             sched = [current_time |-> SchedulerInit(StartTimeStr), made |-> 1, day |-> day,
                      places |-> places, answers |-> answers, runs |-> <<>>,
                      tool_runs |-> <<>>, reruns |-> <<>>]

\* scheduler.plan_day(day_items): one run on the day's stops.
SchedPlanDay ==
    /\ sched.day # 0
    /\ Len(sched.runs) < SchedRuns
    /\ \E o \in { plan_day(sched, sched.places, sched.answers) } :
          sched' = [sched EXCEPT !.current_time = o.current_time,
                                 !.runs = Append(@, [raised |-> o.raised,
                                                     timeline |-> o.timeline])]
    /\ UNCHANGED <<total_days, pc, steps, messages, tool_calls, itinerary, dialog_stage,
                   session_stage, current_anchor, show_pdf_button, ban_list, last_deleted_spot,
                   deleted_names, last_pass, tsp>>

\* A later call of the timeline tool makes a new scheduler for the same stops.
SchedNew ==
    /\ sched.day # 0
    /\ sched.made < SchedMade
    /\ sched' = [sched EXCEPT !.current_time = SchedulerInit(StartTimeStr), !.made = @ + 1]
    /\ UNCHANGED <<total_days, pc, steps, messages, tool_calls, itinerary, dialog_stage,
                   session_stage, current_anchor, show_pdf_button, ban_list, last_deleted_spot,
                   deleted_names, last_pass, tsp>>

\* A call of the timeline tool with the stops of the day as its itinerary.
SchedTimelineTool ==
    /\ sched.day # 0
    /\ Len(sched.tool_runs) < SchedRuns
    /\ \E itin \in { [ i \in 1..Len(sched.places) |->
                          sched.places[i] @@ [day |-> sched.day] ] } :
          sched' = [sched EXCEPT !.tool_runs = Append(@, timeline_of_day(itin, sched.answers))]
    /\ UNCHANGED <<total_days, pc, steps, messages, tool_calls, itinerary, dialog_stage,
                   session_stage, current_anchor, show_pdf_button, ban_list, last_deleted_spot,
                   deleted_names, last_pass, tsp>>

\* scheduler.plan_day on what its latest run returned: the timeline's
\* activities, the entries that are not of type "move" (the filter of
\* plan_itinerary_timeline and of every tool pass).
SchedReschedule ==
    /\ sched.day # 0
    /\ sched.runs # <<>>
    /\ Len(sched.reruns) < SchedRuns
    /\ \E first \in { sched.runs[Len(sched.runs)] } :
          /\ ~first.raised
          /\ \E o \in { plan_day(sched, SelectSeq(first.timeline, LAMBDA x : x.type # "move"),
                                  sched.answers) } :
                sched' = [sched EXCEPT !.reruns = Append(@, [first |-> first.timeline,
                                                             raised |-> o.raised,
                                                             timeline |-> o.timeline])]
    /\ UNCHANGED <<total_days, pc, steps, messages, tool_calls, itinerary, dialog_stage,
                   session_stage, current_anchor, show_pdf_button, ban_list, last_deleted_spot,
                   deleted_names, last_pass, tsp>>

SchedNext ==
    \/ SchedPlanDay
    \/ SchedNew
    \/ SchedTimelineTool
    \/ SchedReschedule

SchedSpec == SchedInit /\ [][SchedNext]_vars

\* ------------------------------------------------------- TestSpec
\* A session in which the developer's test data may be loaded between turns.
TestPlanner == AgentNode("PlannerAgent", TestLists) /\ UNCHANGED steps
TestEditor == AgentNode("EditorAgent", TestLists) /\ UNCHANGED steps
TestCallTools == ToolPass(Catalog, TestChoices, TestStops, TRUE, FALSE) /\ UNCHANGED steps

TestNext ==
    \/ StartTurn
    \/ TestPlanner
    \/ TestEditor
    \/ TestCallTools
    \/ EndTurn
    \/ LoadTestData

TestSpec == InitDays(MaxDays) /\ [][TestNext]_vars

\* ------------------------------------------------------- FailSpec
\* Searches only, on a one-day trip, with a search tool whose filtering of the
\* candidates may raise.
FailCallTools == ToolPass(Catalog, FinderChoices, FailStops, FALSE, TRUE) /\ UNCHANGED steps

FailNext ==
    \/ StartTurn
    \/ PlanPlanner
    \/ PlanEditor
    \/ FailCallTools
    \/ EndTurn

FailSpec == Init /\ [][FailNext]_vars

\* ------------------------------------------------------- TspSpec
\* optimize_and_get_routes has at least two places (with the start location,
\* if one is given, as place 0) and their matrix of durations.
TspInit ==
    /\ SessionInit(1)
    /\ sched = NoSched
    /\ \E n \in 2..TspPlaces, start_fixed \in BOOLEAN, kind \in {"line", "ring", "none", "uneven"} :
          tsp = [NoTsp EXCEPT !.n = n, !.start_fixed = start_fixed, !.kind = kind]

\* "best_indices, _ = await asyncio.to_thread(_solve_tsp, dur_matrix,
\* bool(start_location), len(all_places))".
TspSolve ==
    /\ tsp.n # 0
    /\ ~tsp.solved
    /\ \E o \in { solve_tsp(dur_matrix(tsp.kind, tsp.n), tsp.start_fixed, tsp.n) } :
          tsp' = [tsp EXCEPT !.solved = TRUE, !.best_order_indices = o.best_order_indices,
                             !.min_duration = o.min_duration]
    /\ UNCHANGED <<total_days, pc, steps, messages, tool_calls, itinerary, dialog_stage,
                   session_stage, current_anchor, show_pdf_button, ban_list, last_deleted_spot,
                   deleted_names, last_pass, sched>>

TspSpec == TspInit /\ [][TspSolve]_vars

\* ------------------------------------------------------- properties
\* C1: after any sequence of tool passes, in either stage, no two stops of
\* the itinerary have the same name (a search result whose name is already in
\* the itinerary is never inserted, also when one pass applies several).
C1_NoDuplicateNames ==
    \A i, j \in 1..Len(itinerary) : i # j => itinerary[i].name # itinerary[j].name

\* The cap C2 states for day d.
C2_Cap(d) == IF d = 1 THEN 4 ELSE IF d = total_days THEN 1 ELSE 5

\* C2: over any sequence of additions in planning stage from an empty
\* itinerary, every stop lies on a day of the trip and no day holds more stops
\* than its cap: 4 for day 1, 1 for the final day, 5 for every other day.
C2_DayCaps ==
    dialog_stage = "planning" =>
        /\ \A i \in 1..Len(itinerary) : itinerary[i].day \in 1..total_days
        /\ \A d \in 1..total_days : CountDay(itinerary, d) <= C2_Cap(d)

\* A three-day trip filled to its caps.
C2_Witness ==
    /\ dialog_stage = "planning"
    /\ total_days = 3
    /\ CountDay(itinerary, 1) = 4
    /\ CountDay(itinerary, 2) = 5
    /\ CountDay(itinerary, 3) = 1

\* C3: once a stop has been deleted, no later tool pass of the session puts a
\* stop with that exact name in the itinerary.
C3_BanListPermanence == ToolSet(last_pass.added) \cap deleted_names = {}

\* The latest pass filled the slot of a deleted stop and added nothing else.
C4_Filled == last_pass.filled # NoFill /\ Len(last_pass.added) = 1

\* The stop the latest pass put in the slot stands at index i (from 0) with
\* the slot's day.
C4_At(i) ==
    /\ i + 1 \in 1..Len(itinerary)
    /\ itinerary[i + 1].name = last_pass.filled.name
    /\ itinerary[i + 1].day = last_pass.filled.day

C5_FullIsRejected ==
    \A a \in last_pass.attempts :
        a.full => a.outcome = "rejected" /\ last_pass.signal

\* C5: a planning addition that meets a final day at its cap never appends a
\* stop. It is rejected and the schedule-full signal is raised, unless the
\* itinerary's last stop has the new stop's category group and another name:
\* then the new stop replaces that last stop.
C5_FullNeverAppends ==
    \A a \in last_pass.attempts :
        a.full => IF a.same THEN a.outcome = "replaced"
                  ELSE a.outcome = "rejected" /\ last_pass.signal

\* A fifth stop for day 1 of a one-day trip was rejected and the signal raised.
C5_Witness ==
    /\ total_days = 1
    /\ CountDay(itinerary, 1) = 4
    /\ last_pass.signal
    /\ \E a \in last_pass.attempts : a.full /\ ~a.same /\ a.outcome = "rejected"

C7_Target(d) == IF d = 1 THEN 4 ELSE IF d = total_days THEN 1 ELSE 5

\* Every day of the trip meets its target stop count.
C7_Complete == \A d \in 1..total_days : CountDay(itinerary, d) >= C7_Target(d)

\* C7 as stated: the stage changes from planning to editing only in a step
\* that leaves every day at its target stop count (a timeline request on an
\* incomplete itinerary leaves the stage at planning).
C7_OnlyWhenComplete ==
    [][ (dialog_stage = "planning" /\ dialog_stage' = "editing") => C7_Complete' ]_vars

\* C7: the stage changes from planning to editing only in a tool pass that
\* runs the timeline tool, and a tool pass that runs the timeline tool leaves
\* the stage at editing whatever the stop counts of the days are.
C7_OnlyByTimeline ==
    [][ /\ (dialog_stage = "planning" /\ dialog_stage' = "editing") =>
              /\ pc = "call_tools"
              /\ TIMELINE \in ToolSet(CallNames(tool_calls))
        /\ (pc = "call_tools" /\ TIMELINE \in ToolSet(CallNames(tool_calls))) =>
              dialog_stage' = "editing" ]_vars

\* A timeline request on an empty itinerary moved the stage to editing.
C7_Witness ==
    /\ session_stage = "planning"
    /\ dialog_stage = "editing"
    /\ TIMELINE \in last_pass.tools
    /\ itinerary = <<>>

\* C8: at the start of a turn entry_router selects the Editor if the stage is
\* editing or the user's message holds an edit keyword, the Planner otherwise.
C8_EntryRouting ==
    [][ pc = "idle" =>
            pc' = IF dialog_stage = "editing" \/ messages'[1].content = "edit"
                  THEN "EditorAgent" ELSE "PlannerAgent" ]_vars

\* A turn in planning stage whose message holds an edit keyword starts at the
\* Editor.
C8_Witness ==
    /\ pc = "EditorAgent"
    /\ dialog_stage = "planning"
    /\ messages = <<HumanMsg("edit")>>

\* C9: within a turn, no tool pass runs the timeline tool (or the route tool)
\* when the tool pass before it ran the same tool.
C9_NeverTwiceInARow ==
    pc = "call_tools" =>
        ToolSet(CallNames(tool_calls)) \cap target_tools \cap last_pass.tools = {}

\* C10: a turn in which the agents keep requesting the timeline or the route
\* tool comes to its end through the routing graph: it never ends by an error
\* raised out of the graph.
C10_TurnReachesEnd == pc # "failed"

\* The entries of the latest pass's history of the given kind.
C11_Applied(kind) == SelectSeq(last_pass.applied, LAMBDA e : e.kind = kind)

\* C11: a tool pass runs its phases in a fixed order. The pre-scan reads the
\* itinerary as it stands before any deletion (the anchor the searches get is
\* the one the pre-scan finds on the itinerary the pass starts from); every
\* deletion is applied before any addition (no addition precedes a deletion,
\* and the first addition of a pass that deleted fills the slot of its last
\* deletion); every addition is processed before re-scheduling and ordering
\* (the stop added last is in the itinerary the pass returns).
C11_PhaseOrder ==
    [][ pc = "call_tools" =>
          /\ last_pass'.anchors \subseteq {search_anchor(tool_calls, itinerary, current_anchor)}
          /\ \A i, j \in 1..Len(last_pass'.applied) :
                 (last_pass'.applied[i].kind = "add" /\ last_pass'.applied[j].kind = "delete")
                    => j < i
          /\ (C11_Applied("delete")' # <<>> /\ C11_Applied("add")' # <<>>) =>
                 last_pass'.filled.index
                    = C11_Applied("delete")'[Len(C11_Applied("delete")')].index
          /\ last_pass'.added # <<>> =>
                 last_pass'.added[Len(last_pass'.added)] \in NamesOf(itinerary') ]_vars

\* A pass replaced the second stop: the search was given the first stop's
\* name as anchor and its result filled the second stop's slot.
C11_Witness ==
    /\ Len(C11_Applied("delete")) = 1
    /\ Len(C11_Applied("add")) = 1
    /\ last_pass.filled.index = 1
    /\ Len(itinerary) >= 2
    /\ last_pass.anchors = {itinerary[1].name}

\* The ids of the tool calls behind the entries es, in the order of es.
C12_Ids(es) == [ i \in 1..Len(es) |-> es[i].id ]

\* Whether the numbers of ids ascend.
C12_Ascending(ids) == \A i, j \in 1..Len(ids) : i < j => ids[i] < ids[j]

\* C12 as stated: the results of one agent step's tool calls are applied to
\* the itinerary one at a time in the order the calls were requested.
C12_RequestOrder == C12_Ascending(C12_Ids(last_pass.applied))

\* C12: the results of one agent step's tool calls are applied to the
\* itinerary one at a time: first the delete and replace intents, in the order
\* their calls were requested, then the place-search results, in the order
\* their calls were requested. A deletion requested after a search is applied
\* before that search's result.
C12_OrderWithinPhase ==
    /\ C12_Ascending(C12_Ids(C11_Applied("delete")))
    /\ C12_Ascending(C12_Ids(C11_Applied("add")))
    /\ last_pass.applied = C11_Applied("delete") \o C11_Applied("add")

\* A pass applied the results of its two searches, the first call's first.
C12_Witness ==
    /\ C12_Ids(last_pass.applied) = <<1, 2>>
    /\ C11_Applied("add") = last_pass.applied
    /\ Len(last_pass.added) = 2
    /\ Len(itinerary) >= 2

\* No stop of the itinerary scores above 0.5 for the target tgt.
C13_NoMatch(tgt) ==
    \A k \in 1..Len(itinerary) : ~RatGT(DeletionScore[tgt, itinerary[k].name], <<1, 2>>)

\* The positions of the delete and replace calls that name a target.
C13_Intents(calls) ==
    { i \in 1..Len(calls) : calls[i].name \in {DELETE, REPLACE} /\ calls[i].tgt # <<>> }

\* C13: a delete or replace intent whose target matches no stop above the 0.5
\* threshold is a no-op. No stop is removed for it; and a pass all of whose
\* intents are such records no emptied slot, bans nothing, and (if it has no
\* search) leaves the itinerary with the stops it had.
C13_NoMatchIsNoOp ==
    [][ pc = "call_tools" =>
          /\ \A i \in C13_Intents(tool_calls) :
                 C13_NoMatch(tool_calls[i].tgt) =>
                    \A k \in 1..Len(last_pass'.applied) : last_pass'.applied[k].id # i
          /\ (\A i \in C13_Intents(tool_calls) : C13_NoMatch(tool_calls[i].tgt)) =>
                 /\ last_deleted_spot' \in {last_deleted_spot, NoSlot}
                 /\ ban_list' = ban_list
                 /\ FIND \notin ToolSet(CallNames(tool_calls)) =>
                        /\ Len(itinerary') = Len(itinerary)
                        /\ NamesOf(itinerary') = NamesOf(itinerary) ]_vars

\* A pass whose only intent named a target that matches none of the stops
\* left the two stops in place.
C13_Witness ==
    /\ last_pass.unmatched = {1}
    /\ last_pass.applied = <<>>
    /\ last_pass.anchors = {}
    /\ Len(itinerary) = 2
    /\ last_deleted_spot = NoSlot
    /\ ban_list = {}

\* The tool calls of the pass that are no searches.
C14_Rest == SelectSeq(tool_calls, LAMBDA c : c.name # FIND)

\* What call_tools_node returns for the tool calls of C14_Rest alone.
C14_RestAlone ==
    call_tools_node(C14_Rest, [ i \in 1..Len(C14_Rest) |-> RawNone ], TRUE, itinerary,
                    dialog_stage, current_anchor, ban_list, last_deleted_spot, total_days)

\* C14: when a tool result of a pass is not well-formed structured data (the
\* alert that stands for the answer of a blocked search is plain text), only
\* that result is discarded: the pass completes, and it leaves the itinerary,
\* the emptied slot, the ban list and the stage that the other tool calls of
\* the pass leave when they are requested alone.
C14_OnlyThatResult ==
    [][ ( /\ pc = "call_tools"
          /\ FIND \in ToolSet(CallNames(tool_calls))
          /\ is_schedule_full(dialog_stage, itinerary, total_days) ) =>
            /\ pc' \in {"PlannerAgent", "EditorAgent", "END"}
            /\ itinerary' = C14_RestAlone.itinerary
            /\ last_deleted_spot' = C14_RestAlone.last_deleted_spot
            /\ ban_list' = C14_RestAlone.ban_list
            /\ dialog_stage' = C14_RestAlone.dialog_stage ]_vars

\* A pass whose search was answered by the alert removed the stop its
\* replace intent named.
C14_Witness ==
    /\ Len(messages) = 2
    /\ messages[1] = ToolMsg("blocked")
    /\ messages[2] = ToolMsg("result")
    /\ last_deleted_spot # NoSlot
    /\ Len(itinerary) = 3
    /\ NameAB \notin NamesOf(itinerary)

\* C15: an exception raised by the invocation of the Planner or the Editor
\* agent does not crash the turn: the step in which the invocation raises
\* leads the turn to its normal end, with the itinerary, the stage, the
\* anchor and the ban list of the turn so far.
C15_AgentFailureEndsTurn ==
    [][ AgentFails => /\ pc' = "END"
                      /\ UNCHANGED <<itinerary, dialog_stage, current_anchor, ban_list>> ]_vars

\* C16: scheduling is idempotent. Two runs of plan_day on the same stops,
\* with the same start time and the same route answers, by one scheduler or
\* by two, end alike: both raise, or both return the same entries with the
\* same start and end values.
C16_Idempotent ==
    \A i, j \in 1..Len(sched.runs) : sched.runs[i] = sched.runs[j]

\* plan_day ran twice on a day of one stop and returned it from 10:00 both
\* times.
C16_Witness ==
    /\ Len(sched.runs) = 2
    /\ ~sched.runs[1].raised
    /\ Len(sched.runs[2].timeline) = 1
    /\ sched.runs[2].timeline[1].start = [h |-> 10, m |-> 0, days |-> 0]
    /\ sched.runs[2].timeline[1].end = [h |-> 12, m |-> 0, days |-> 0]

\* The minutes since the start date's midnight that a formatted time shows.
C17_Minutes(f) == f.days * 1440 + f.h * 60 + f.m

\* C17: when the route resolver has no route between two consecutive stops
\* of a day, plan_day still returns a timeline, in which a transit leg stands
\* between the two stops: it begins when the first stop ends, it lasts exactly
\* 30 minutes, and the second stop begins when it ends.
C17_NoRouteLeg ==
    \A r \in 1..Len(sched.runs) :
        \A k \in 1..(Len(sched.places) - 1) :
            sched.answers[k].kind = "none" =>
                LET tl == sched.runs[r].timeline
                IN  /\ ~sched.runs[r].raised
                    /\ Len(tl) >= 2 * k + 1
                    /\ tl[2 * k].type = "move"
                    /\ tl[2 * k].start = tl[2 * k - 1].end
                    /\ C17_Minutes(tl[2 * k].end) = C17_Minutes(tl[2 * k].start) + 30
                    /\ tl[2 * k + 1].start = tl[2 * k].end

\* C18: the first stop of day 1 is scheduled to start at 12:00, the first
\* stop of every later day at 10:00.
C18_DayStart ==
    \A r \in 1..Len(sched.runs) :
        (~sched.runs[r].raised /\ sched.runs[r].timeline # <<>>) =>
            sched.runs[r].timeline[1].start
               = IF sched.day = 1 THEN [h |-> 12, m |-> 0, days |-> 0]
                 ELSE [h |-> 10, m |-> 0, days |-> 0]

\* The anchor C19 states for a target that the pre-scan matches with the
\* entry at idx (from 0) of the itinerary.
C19_Anchor(idx) == IF idx > 0 THEN itinerary[idx].name ELSE Destination

\* C19: when the target of a delete or replace call of a pass fuzzy-matches a
\* stop of the itinerary the pass starts from, the anchor given to the pass's
\* searches is the name of the stop before the match, or the destination if
\* the match is the first stop.
C19_AnchorOfSearch ==
    [][ pc = "call_tools" =>
          \A i \in C13_Intents(tool_calls) :
              PrescanMatch(tool_calls[i].tgt, itinerary) # -1 =>
                 last_pass'.anchors
                    \subseteq {C19_Anchor(PrescanMatch(tool_calls[i].tgt, itinerary))} ]_vars

\* The index (from 0) at which the latest pass removed a stop for the tool
\* call id, or -1 if it removed none for it.
C20_RemovedAt(id) ==
    LET es == SelectSeq(last_pass.applied, LAMBDA e : e.kind = "delete" /\ e.id = id)
    IN  IF es = <<>> THEN -1 ELSE es[1].index

\* C20: deletion processing and the pre-scan make the same fuzzy match. For
\* the first delete or replace call of a pass (its deletion meets the stop
\* list the pre-scan read), the stop removed is the stop the pre-scan selects
\* for the call's target, and none is removed where the pre-scan selects none.
C20_SameMatch ==
    [][ pc = "call_tools" =>
          \A i \in C13_Intents(tool_calls) :
              (\A j \in C13_Intents(tool_calls) : i <= j) =>
                  C20_RemovedAt(i)' = PrescanMatch(tool_calls[i].tgt, itinerary) ]_vars

\* C21: after a tool pass, the names newly added to the ban list are exactly
\* the names of the stops removed in that pass: every removed stop's name is
\* banned, and no name is banned whose stop was not removed.
C21_BannedAreRemoved ==
    [][ pc = "call_tools" => ban_list' \ ban_list = last_pass'.removed ]_vars

\* The cap C22 reads for day d.
C22_Cap(d) == IF d = 1 THEN 4 ELSE IF d = total_days THEN 1 ELSE 5

\* The day C22 states for a stop appended to the itinerary: the last stop's
\* day while that day is below its cap, the next day when it is full.
C22_DayToAdd ==
    LET last_day == itinerary[Len(itinerary)].day
    IN  IF CountDay(itinerary, last_day) < C22_Cap(last_day) THEN last_day ELSE last_day + 1

\* The days along the list never decrease, and they are the days from 1 up to
\* the last stop's day, none left out.
C22_DaysInOrder ==
    /\ \A i, j \in 1..Len(itinerary) : i < j => itinerary[i].day <= itinerary[j].day
    /\ itinerary # <<>> => DaysOf(itinerary) = 1..itinerary[Len(itinerary)].day

\* C22: in planning stage with no pending slot, a pass whose one search
\* appends a stop (no adjacency replacement) gives the stop the day of the
\* last stop when that day is below its cap, and day + 1 when that day is full
\* and more days remain; over any sequence of additions the days never
\* decrease along the list and never skip a day.
C22_DayAssignment ==
    [][ /\ C22_DaysInOrder'
        /\ ( /\ pc = "call_tools"
             /\ dialog_stage = "planning"
             /\ last_deleted_spot = NoSlot
             /\ CallNames(tool_calls) = <<FIND>>
             /\ itinerary # <<>>
             /\ Len(itinerary') = Len(itinerary) + 1 ) =>
               /\ C22_DayToAdd <= total_days
               /\ CountDay(itinerary', C22_DayToAdd) = CountDay(itinerary, C22_DayToAdd) + 1
               /\ \E k \in 1..Len(itinerary') :
                      /\ itinerary'[k].name = last_pass'.added[1]
                      /\ itinerary'[k].day = C22_DayToAdd ]_vars

\* Day 1 of a three-day trip held its four stops and the pass's one search
\* appended the first stop of day 2.
C22_Witness ==
    /\ total_days = 3
    /\ dialog_stage = "planning"
    /\ Len(last_pass.added) = 1
    /\ \E a \in last_pass.attempts : a.outcome = "appended"
    /\ CountDay(itinerary, 1) = 4
    /\ CountDay(itinerary, 2) = 1
    /\ Len(itinerary) = 5
    /\ \E k \in 1..Len(itinerary) :
           itinerary[k].name = last_pass.added[1] /\ itinerary[k].day = 2

\* The stop a pass of one search put in the itinerary: the entry of the list
\* after the pass that bears the added name (itin: the list after the pass).
C23_New(itin, name) == itin[CHOOSE k \in 1..Len(itin) : itin[k].name = name]

\* A pass of one search in planning stage put a stop in the itinerary whose
\* last stop had the new stop's category group and another name (itin, added:
\* the list and the added names after the pass).
C23_Adjacent(itin, added) ==
    /\ pc = "call_tools"
    /\ dialog_stage = "planning"
    /\ CallNames(tool_calls) = <<FIND>>
    /\ itinerary # <<>>
    /\ Len(added) = 1
    /\ added[1] # itinerary[Len(itinerary)].name
    /\ get_category_group(C23_New(itin, added[1]).type)
          = get_category_group(itinerary[Len(itinerary)].type)

\* The new stop stands where the last stop stood, with its day, and the
\* stops before it are the ones that were there (itin, added as above).
C23_InPlace(itin, added) ==
    /\ Len(itin) = Len(itinerary)
    /\ itin[Len(itin)].name = added[1]
    /\ itin[Len(itin)].day = itinerary[Len(itinerary)].day
    /\ SubSeq(itin, 1, Len(itin) - 1) = SubSeq(itinerary, 1, Len(itinerary) - 1)

\* C23 as stated: in planning stage, when the last stop of the itinerary is
\* in the same category group as the new stop and has a different name, the
\* new stop replaces it in place.
C23_ReplacesLast ==
    [][ C23_Adjacent(itinerary', last_pass'.added) =>
            C23_InPlace(itinerary', last_pass'.added) ]_vars

\* C23: in planning stage with no pending slot, when the last stop of the
\* itinerary is in the same category group (restaurant, cafe, attraction) as
\* the new stop and has a different name, the new stop replaces it in place:
\* the list length is unchanged and the new stop takes the replaced stop's
\* position and day. With a pending slot the new stop is inserted at the slot
\* and the last stop stays.
C23_ReplacesLastNoSlot ==
    [][ C23_Adjacent(itinerary', last_pass'.added) =>
            IF last_deleted_spot = NoSlot
            THEN C23_InPlace(itinerary', last_pass'.added)
            ELSE /\ Len(itinerary') = Len(itinerary) + 1
                 /\ itinerary[Len(itinerary)].name \in NamesOf(itinerary') ]_vars

\* In planning stage a pass of one search replaced the last stop, a
\* restaurant, by another restaurant.
C23_Witness ==
    /\ dialog_stage = "planning"
    /\ Len(last_pass.added) = 1
    /\ \E a \in last_pass.attempts : a.same /\ a.outcome = "replaced"
    /\ itinerary # <<>>
    /\ itinerary[Len(itinerary)].name = last_pass.added[1]
    /\ get_category_group(itinerary[Len(itinerary)].type) = "restaurant"

\* The stops of the itinerary (its entries that are no TransitLegs), and the
\* positions among them of the stops the anchor names.
C24_Stops == places_only(itinerary)
C24_Hits == { k \in 1..Len(C24_Stops) : C24_Stops[k].name = current_anchor }

\* C24: in editing stage with no pending slot, a pass whose one search adds a
\* stop inserts it immediately after the anchor stop, with that stop's day,
\* when the anchor names a stop in the list; otherwise it appends the stop at
\* the end with the day of the list's last stop. The other stops keep their
\* places.
C24_AfterAnchor ==
    [][ ( /\ pc = "call_tools"
          /\ dialog_stage = "editing"
          /\ last_deleted_spot = NoSlot
          /\ CallNames(tool_calls) = <<FIND>>
          /\ C24_Stops # <<>>
          /\ Len(last_pass'.added) = 1 ) =>
            /\ Len(itinerary') = Len(C24_Stops) + 1
            /\ LET k == IF C24_Hits # {}
                        THEN CHOOSE i \in C24_Hits : \A j \in C24_Hits : i <= j
                        ELSE Len(C24_Stops)
               IN  /\ itinerary'[k + 1].name = last_pass'.added[1]
                   /\ itinerary'[k + 1].day = C24_Stops[k].day
                   /\ itinerary' = InsertAt(C24_Stops, k, itinerary'[k + 1]) ]_vars

\* In editing stage a search's stop was put after the anchor stop inside day
\* 2 of a list that ends on day 4, with no slot filled.
C24_Witness ==
    /\ dialog_stage = "editing"
    /\ Len(last_pass.added) = 1
    /\ last_pass.filled = NoFill
    /\ itinerary # <<>>
    /\ itinerary[Len(itinerary)].day = 4
    /\ \E k \in 2..(Len(itinerary) - 1) :
           /\ itinerary[k].name = last_pass.added[1]
           /\ itinerary[k].day = 2
           /\ itinerary[k - 1].day = 2
           /\ itinerary[k + 1].day = 2

\* C25: the day scheduler is re-invoked at the end of a tool pass exactly
\* when: in planning stage, a timeline tool was requested and the list the
\* pass leaves differs from the itinerary the pass started from; in editing
\* stage, a timeline tool was requested or a stop was added or removed in the
\* pass (the stops left are fewer than the stops at the start and the stops
\* added together).
C25_RescheduledExactlyWhen ==
    [][ pc = "call_tools" =>
          last_pass'.rescheduled
             = IF dialog_stage = "planning"
               THEN /\ TIMELINE \in ToolSet(CallNames(tool_calls))
                    /\ itinerary' # itinerary
               ELSE \/ TIMELINE \in ToolSet(CallNames(tool_calls))
                    \/ last_pass'.added # <<>>
                    \/ Len(places_only(itinerary'))
                          < Len(places_only(itinerary)) + Len(last_pass'.added) ]_vars

\* A pass in editing stage that requested no timeline added a stop, and the
\* scheduler was invoked.
C25_Witness ==
    /\ session_stage = "editing"
    /\ last_pass.rescheduled
    /\ TIMELINE \notin last_pass.tools
    /\ Len(last_pass.added) = 1
    /\ last_pass.added[1] \in NamesOf(itinerary)

\* The place C26 gives the stop at k of list in its day's category sequence:
\* on day 1 the first restaurant, cafes, attractions, the other restaurants;
\* on every other day attractions, the first restaurant, cafes, the other
\* restaurants.
C26_Rank(list, k) ==
    LET g == get_category_group(list[k].type)
        first == g = "restaurant"
                 /\ \A j \in 1..(k - 1) :
                        list[j].day = list[k].day => get_category_group(list[j].type) # "restaurant"
    IN  IF list[k].day = 1
        THEN IF first THEN 0 ELSE IF g = "cafe" THEN 1 ELSE IF g = "attraction" THEN 2 ELSE 3
        ELSE IF g = "attraction" THEN 0 ELSE IF first THEN 1 ELSE IF g = "cafe" THEN 2 ELSE 3

\* The days never decrease along the list.
C26_ByDay(list) == \A i, j \in 1..Len(list) : i < j => list[i].day <= list[j].day

\* The days never decrease, and inside a day the stops stand in the category
\* sequence.
C26_CategoryOrder(list) ==
    /\ C26_ByDay(list)
    /\ \A i, j \in 1..Len(list) :
           (i < j /\ list[i].day = list[j].day) => C26_Rank(list, i) <= C26_Rank(list, j)

\* C26: after a re-scheduling the itinerary order is normalized: when the
\* pass ran in planning stage the stops of day 1 are ordered first restaurant,
\* cafes, attractions, remaining restaurants and the stops of every other day
\* attractions, first restaurant, cafes, remaining restaurants; when it ran in
\* editing stage the entries are sorted by day.
C26_NormalizedAfterRescheduling ==
    [][ (pc = "call_tools" /\ last_pass'.rescheduled) =>
            IF dialog_stage = "planning" THEN C26_CategoryOrder(itinerary')
            ELSE C26_ByDay(itinerary') ]_vars

\* The stops of list: its entries that are no TransitLegs.
C27_Stops(list) == SelectSeq(list, LAMBDA e : e.type # "move")

\* The positions of the TransitLegs of list.
C27_Legs(list) == { k \in 1..Len(list) : list[k].type = "move" }

\* The leg at k of list stands between two stops of its day.
C27_Connects(list, k) ==
    /\ 1 < k /\ k < Len(list)
    /\ list[k - 1].type # "move" /\ list[k - 1].day = list[k].day
    /\ list[k + 1].type # "move" /\ list[k + 1].day = list[k].day

\* C27: TransitLegs are never stale. After any tool pass that added, removed
\* or reordered a stop, every TransitLeg of the itinerary was computed by the
\* pass's own re-scheduling and stands between the two stops adjacent to it
\* on its day; the legs the itinerary held before the pass are discarded.
C27_NeverStale ==
    [][ ( /\ pc = "call_tools"
          /\ C27_Stops(itinerary') # C27_Stops(itinerary) ) =>
            \A k \in C27_Legs(itinerary') :
                last_pass'.rescheduled /\ C27_Connects(itinerary', k) ]_vars

\* A pass removed the second stop of day 2 from the test itinerary, which
\* held a leg on either side of it: the fifteen stops left stand without the
\* legs of the old order.
C27_Witness ==
    /\ Len(itinerary) = 15
    /\ last_deleted_spot = [index |-> 5, day |-> 2]
    /\ MockTarget \notin NamesOf(itinerary)
    /\ itinerary[5].name = <<"q", "1">>
    /\ itinerary[6].name = <<"q", "3">>
    /\ C27_Legs(itinerary) = {}

\* C28: a TransitLeg never appears without scheduling having run: in every
\* reachable state where the stage is planning, the itinerary contains no
\* TransitLeg entry.
C28_NoLegInPlanning ==
    dialog_stage = "planning" => \A k \in 1..Len(itinerary) : itinerary[k].type # "move"

\* C29: the timeline tool returns every stop of the list it was given,
\* exactly once and in the same order, each with start and end filled, with a
\* TransitLeg between every two consecutive stops of the day.
C29_TimelineOfEveryStop ==
    \A r \in 1..Len(sched.tool_runs) :
        LET out == sched.tool_runs[r]
            n == Len(sched.places)
        IN  /\ Len(out) = 2 * n - 1
            /\ \A i \in 1..n :
                   /\ out[2 * i - 1].type # "move"
                   /\ out[2 * i - 1].name = sched.places[i].name
                   /\ {"start", "end"} \subseteq DOMAIN out[2 * i - 1]
            /\ \A i \in 1..(n - 1) : out[2 * i].type = "move"

\* C30: a place-search result that reports failure is never inserted as a
\* stop: neither the not-found sentinel nor the error record the search tool
\* returns when candidate filtering fails ever appears in the itinerary.
C30_NoFailureAsStop ==
    \A k \in 1..Len(itinerary) : itinerary[k].name \notin {NotFoundName, ErrorName}

\* C31: once a tool pass of the turn has raised the schedule-full signal, every
\* search requested in a later pass of the turn is answered with the
\* schedule-full message and the search tool is not called.
C31_NoSearchAfterSignal ==
    (pc = "call_tools" /\ last_pass.signalled)
    => \A i \in 1..Len(tool_calls) :
          tool_calls[i].name = FIND
          => ExecuteOne(tool_calls[i], RawNone,
                        is_schedule_full(dialog_stage, itinerary, total_days)).content = "blocked"

\* C32: a tool pass whose calls include the confirmation tool sets
\* show_pdf_button and routes to END, not to an agent; a pass of the
\* confirmation tool alone leaves the stops what they were (each stop as many
\* times as before).
C32_Count(list, e) == Cardinality({ k \in 1..Len(list) : list[k] = e })

C32_SameStops(before, after) ==
    /\ Len(places_only(before)) = Len(places_only(after))
    /\ \A k \in 1..Len(before) :
          before[k].type # "move"
          => C32_Count(places_only(before), before[k]) = C32_Count(places_only(after), before[k])

C32_ConfirmationEndsTurn ==
    [][ (pc = "call_tools" /\ \E i \in 1..Len(tool_calls) : tool_calls[i].name = CONFIRM)
        => /\ show_pdf_button'
           /\ pc' = "END"
           /\ (\A i \in 1..Len(tool_calls) : tool_calls[i].name = CONFIRM)
              => C32_SameStops(itinerary, itinerary') ]_vars

\* A pass of the confirmation tool on an itinerary of two stops or more has
\* ended the turn (the last message is the confirmation tool's).
C32_Witness ==
    /\ pc = "END"
    /\ show_pdf_button
    /\ messages # <<>>
    /\ messages[Len(messages)].kind = "tool"
    /\ last_pass.added = <<>>
    /\ Len(itinerary) >= 2

\* C33: a tool pass without a timeline request that removes no stop and puts
\* no stop in the itinerary returns the itinerary it was given: the same
\* entries, stops and TransitLegs, in the same order.
C33_Idle ==
    /\ pc = "call_tools"
    /\ \A i \in 1..Len(tool_calls) : tool_calls[i].name # TIMELINE
    /\ last_pass'.added = <<>>
    /\ Len(places_only(itinerary')) = Len(places_only(itinerary))

C33_IdlePassKeepsItinerary ==
    [][ C33_Idle => itinerary' = itinerary ]_vars

\* C34: plan_day run on the activities of the timeline it returned gives
\* every stop the category tag, the stay, the start and the end the first run
\* gave it.
C34_Activities(timeline) == SelectSeq(timeline, LAMBDA x : x.type # "move")

C34_NoDrift ==
    \A r \in 1..Len(sched.reruns) :
        LET first == C34_Activities(sched.reruns[r].first)
            again == C34_Activities(sched.reruns[r].timeline)
        IN  /\ ~sched.reruns[r].raised
            /\ Len(again) = Len(first)
            /\ \A k \in 1..Len(first) :
                  /\ again[k].name = first[k].name
                  /\ again[k].category = first[k].category
                  /\ again[k].duration_minutes = first[k].duration_minutes
                  /\ again[k].start = first[k].start
                  /\ again[k].end = first[k].end

\* C35: a recorded emptied slot stays recorded through every step that
\* neither puts a stop in the itinerary nor removes one; the pass that inserts
\* a stop at it clears it; and with no slot recorded, a pass that removes no
\* stop inserts none at a slot (so one slot takes one addition).
C35_Kept ==
    (last_deleted_spot # NoSlot
     /\ ~(pc = "call_tools" /\ (last_pass'.added # <<>> \/ last_pass'.removed # {})))
    => last_deleted_spot' = last_deleted_spot

C35_Cleared ==
    (pc = "call_tools" /\ last_pass'.filled # NoFill) => last_deleted_spot' = NoSlot

C35_Once ==
    (pc = "call_tools" /\ last_deleted_spot = NoSlot /\ last_pass'.removed = {})
    => last_pass'.filled = NoFill

C35_SlotLifetime ==
    [][ C35_Kept /\ C35_Cleared /\ C35_Once ]_vars

\* C36: in planning stage, a search requested while an emptied slot is
\* recorded is executed: it is not answered with the schedule-full alert.
C36_SearchRunsForSlot ==
    (pc = "call_tools" /\ dialog_stage = "planning" /\ last_deleted_spot # NoSlot)
    => \A i \in 1..Len(tool_calls) :
          tool_calls[i].name = FIND
          => execute_tools(tool_calls, [ j \in 1..Len(tool_calls) |-> RawNone ], dialog_stage,
                           itinerary, current_anchor, total_days)[i].content # "blocked"

\* C37: current_anchor is the empty string, the destination, or the name of
\* a stop of the itinerary; in particular it does not name a stop that was
\* deleted.
C37_AnchorIsAStop ==
    current_anchor \in {EmptyStr, Destination} \cup NamesOf(places_only(itinerary))

\* C38: a pass of one replace_place call whose target matches a stop removes
\* that stop and inserts nothing: the stops are those of before without the
\* matched one, the slot of the removed stop is recorded, and no slot is
\* filled in that pass.
C38_Match == DeletionMatch(tool_calls[1].tgt, places_only(itinerary))

C38_ReplaceOnlyRemoves ==
    [][ (/\ pc = "call_tools"
         /\ Len(tool_calls) = 1
         /\ tool_calls[1].name = REPLACE
         /\ C38_Match # -1)
        => /\ C32_SameStops(RemoveAt(places_only(itinerary), C38_Match), itinerary')
           /\ last_pass'.added = <<>>
           /\ last_pass'.filled = NoFill
           /\ last_deleted_spot' = [index |-> C38_Match,
                                    day |-> places_only(itinerary)[C38_Match + 1].day] ]_vars

\* A pass of one replace_place call removed the first of two stops and
\* recorded its slot.
C38_Witness ==
    /\ REPLACE \in last_pass.tools
    /\ last_pass.added = <<>>
    /\ Len(last_pass.applied) = 1
    /\ last_pass.removed = {NameAB}
    /\ Len(itinerary) = 1
    /\ last_deleted_spot = [index |-> 0, day |-> 1]

\* C39: the ordering step at the end of a tool pass (the category sequence in
\* planning, the sort by day in editing) returns a permutation of the list it
\* is given: every entry, with its day, as many times as before.
C39_Permutation(before, after) ==
    /\ Len(after) = Len(before)
    /\ \A k \in 1..Len(before) : C32_Count(after, before[k]) = C32_Count(before, before[k])

C39_OrderingIsPermutation ==
    [][ pc = "call_tools" => C39_Permutation(last_pass'.unsorted, itinerary') ]_vars

\* In planning stage the ordering step moved stops of a trip of several days.
C39_Witness ==
    /\ dialog_stage = "planning"
    /\ total_days > 1
    /\ Len(last_pass.unsorted) >= 3
    /\ last_pass.unsorted # itinerary
    /\ C39_Permutation(last_pass.unsorted, itinerary)
    /\ \E k \in 1..Len(itinerary) : itinerary[k].day > 1

\* C40: the order _solve_tsp returns contains every place index exactly once,
\* and begins with index 0 when the start is fixed, for every number of places:
\* with at most 8 free indices (all permutations) and with more than 8
\* (nearest neighbour).
C40_EveryIndexOnce ==
    tsp.solved
    => /\ Len(tsp.best_order_indices) = tsp.n
       /\ \A i \in 0..(tsp.n - 1) :
              Cardinality({ k \in 1..Len(tsp.best_order_indices) : tsp.best_order_indices[k] = i }) = 1
       /\ tsp.start_fixed => tsp.best_order_indices[1] = 0

====
